---- MODULE Spec2Model ----
(***************************************************************************)
(* Model of autospec's phase execution and retry state machine:            *)
(*   package retry    (retry.json ledger: Load / Save / Increment / Reset) *)
(*   package workflow (Executor.ExecutePhase and its helpers)              *)
(* The ledger file lives in a small file system of names and inodes so     *)
(* that os.WriteFile (open with O_TRUNC, write, close) and os.Rename keep  *)
(* the effects they have on a real file system.                            *)
(***************************************************************************)
EXTENDS Integers, Sequences, FiniteSets, TLC

(* ----------------------------- bounds ---------------------------------- *)
\* largest configured ceiling (Executor.MaxRetries) a run may use
MaxCeiling == 2
\* number of distinct non-zero clock readings time.Now() may return
MaxTime == 1
\* failing runs driven beyond the ceiling in the consecutive-failure scenario
ExtraRuns == 2
\* runs issued in all by the concurrent tool invocations
MaxRuns == 3

\* largest exit code a child process ends with
MaxExit == 2

(* --------------------------- program constants -------------------------- *)
\* ResetRetryCount loads with a hard-wired maxRetries of 3
ResetMaxRetries == 3

Procs == {1, 2}
Specs == {"s1"}
Phases == {"plan", "tasks"}
\* the ledger keys "spec:phase", in the order json.Marshal sorts map keys
KeyOrder == << <<"s1", "plan">>, <<"s1", "tasks">> >>
Keys == {KeyOrder[i] : i \in 1..Len(KeyOrder)}
\* every key a run over the phase flags can write, in json.Marshal's order
SortedKeys == << <<"s1", "implement">>, <<"s1", "plan">>, <<"s1", "specify">>, <<"s1", "tasks">> >>
Ceilings == 0..MaxCeiling
\* the zero time.Time is 0, time.Now() is some reading 1..MaxTime
Clock == 1..MaxTime

Min(a, b) == IF a < b THEN a ELSE b

(* ------------------------------ errors ---------------------------------- *)
\* An error is the chain of its layers, outermost first; nil is the empty chain.
nil == << >>

ErrLayer(type, msg) ==
    [type |-> type, msg |-> msg, SpecName |-> "", Phase |-> "", Count |-> 0, MaxRetries |-> 0]

\* fmt.Errorf("<msg>: %w", err)
Wrap(msg, err) == <<ErrLayer("wrapError", msg)>> \o err

\* errors.As(err, *T): some layer of the chain has the type
ErrorsAs(err, type) == \E i \in 1..Len(err) : err[i].type = type

\* the outermost message of the chain is the text the error starts with
ErrPrefix(err) == IF err = nil THEN "" ELSE err[1].msg

\* the cause a %w chain bottoms out in
ErrCause(err) == IF err = nil THEN nil ELSE <<err[Len(err)]>>

RetryExhaustedError(r) ==
    << [type |-> "RetryExhaustedError", msg |-> "retry limit exhausted",
        SpecName |-> r.SpecName, Phase |-> r.Phase,
        Count |-> r.Count, MaxRetries |-> r.MaxRetries] >>

\* the error values the collaborators hand to the executor
AgentError == <<ErrLayer("ExecError", "agent command failed")>>
ValidationError == <<ErrLayer("ValidationError", "artifact invalid")>>
NotExistError == <<ErrLayer("PathError", "no such file or directory")>>
PermissionError == <<ErrLayer("PathError", "permission denied")>>
SyntaxError == <<ErrLayer("SyntaxError", "invalid JSON")>>

(* ---------------------------- RetryState -------------------------------- *)
NewRetryState(specName, phase, maxRetries) ==
    [SpecName |-> specName, Phase |-> phase, Count |-> 0,
     LastAttempt |-> 0, MaxRetries |-> maxRetries]

\* the zero value a variable holds before a record is loaded
ZeroRetryState == NewRetryState("", "", 0)

\* faulty variant: one attempt too many
CanRetryOffByOne(r) == r.Count <= r.MaxRetries

CanRetry(r) == r.Count < r.MaxRetries

\* faulty variant: the count is raised but the timestamp is left as it was
IncrementKeepsTimestamp(r, now) ==
    IF ~CanRetry(r)
    THEN [state |-> r, err |-> RetryExhaustedError(r)]
    ELSE [state |-> [r EXCEPT !.Count = r.Count + 1], err |-> nil]

\* faulty variant: the timestamp is refreshed but the count is not raised
IncrementTimestampOnly(r, now) ==
    IF ~CanRetry(r)
    THEN [state |-> r, err |-> RetryExhaustedError(r)]
    ELSE [state |-> [r EXCEPT !.LastAttempt = now], err |-> nil]

\* Increment: the record after the call and the error it returns
Increment(r, now) ==
    IF ~CanRetry(r)
    THEN [state |-> r, err |-> RetryExhaustedError(r)]
    ELSE [state |-> [r EXCEPT !.Count = r.Count + 1, !.LastAttempt = now], err |-> nil]

\* faulty variant: the count is lowered by one instead of zeroed
ResetDecrements(r) ==
    [r EXCEPT !.Count = IF r.Count > 0 THEN r.Count - 1 ELSE 0, !.LastAttempt = 0]

\* faulty variant: only the timestamp is cleared
ResetKeepsCount(r) == [r EXCEPT !.LastAttempt = 0]

Reset(r) == [r EXCEPT !.Count = 0, !.LastAttempt = 0]

(* ------------------------- JSON (de)serialisation ----------------------- *)
\* A file is a sequence of tokens; a token is a record of one shape.
Tok(t, k, n) == [t |-> t, k |-> k, n |-> n]
OpenTok == Tok("{", << >>, 0)
CloseTok == Tok("}", << >>, 0)
\* what a hole left by writing past the end of a truncated file reads as
ZeroTok == Tok("0", << >>, 0)
EntryLen == 5

Key(specName, phase) == <<specName, phase>>

\* faulty variant: the last_attempt field is not serialised
EntryTokensOmitsTimestamp(k, r) ==
    << Tok("key", k, 0), Tok("name", <<r.SpecName, r.Phase>>, 0),
       Tok("count", << >>, r.Count), Tok("last_attempt", << >>, 0),
       Tok("max_retries", << >>, r.MaxRetries) >>

EntryTokens(k, r) ==
    << Tok("key", k, 0), Tok("name", <<r.SpecName, r.Phase>>, 0),
       Tok("count", << >>, r.Count), Tok("last_attempt", << >>, r.LastAttempt),
       Tok("max_retries", << >>, r.MaxRetries) >>

RECURSIVE MarshalFrom(_, _)
MarshalFrom(store, i) ==
    IF i > Len(SortedKeys) THEN << >>
    ELSE (IF SortedKeys[i] \in DOMAIN store
          THEN EntryTokens(SortedKeys[i], store[SortedKeys[i]]) ELSE << >>)
         \o MarshalFrom(store, i + 1)

\* json.MarshalIndent(store): the whole map, keys sorted
Marshal(store) == <<OpenTok>> \o MarshalFrom(store, 1) \o <<CloseTok>>

EntryOk(data, i) ==
    /\ data[i].t = "key" /\ Len(data[i].k) = 2
    /\ data[i + 1].t = "name" /\ Len(data[i + 1].k) = 2
    /\ data[i + 2].t = "count"
    /\ data[i + 3].t = "last_attempt"
    /\ data[i + 4].t = "max_retries"

EntryState(data, i) ==
    [SpecName |-> data[i + 1].k[1], Phase |-> data[i + 1].k[2],
     Count |-> data[i + 2].n, LastAttempt |-> data[i + 3].n,
     MaxRetries |-> data[i + 4].n]

\* json.Unmarshal succeeds on exactly the well-formed documents
WellFormed(data) ==
    /\ Len(data) >= 2
    /\ (Len(data) - 2) % EntryLen = 0
    /\ data[1] = OpenTok
    /\ data[Len(data)] = CloseTok
    /\ \A j \in 0..((Len(data) - 2) \div EntryLen - 1) : EntryOk(data, 2 + j * EntryLen)

\* the map of a well-formed document; a repeated key keeps its last entry
Unmarshal(data) ==
    LET n == (Len(data) - 2) \div EntryLen
        ks == {data[2 + j * EntryLen].k : j \in 0..(n - 1)}
        last(k) == CHOOSE j \in 0..(n - 1) :
                      /\ data[2 + j * EntryLen].k = k
                      /\ \A j2 \in 0..(n - 1) : data[2 + j2 * EntryLen].k = k => j2 <= j
    IN [k \in ks |-> EntryState(data, 2 + last(k) * EntryLen)]

(* ------------------------------ state ----------------------------------- *)
RetryPath == "retry.json"
\* faulty variant: the ledger is written in place
TmpPathInPlace == RetryPath
\* tmpPath := retryPath + ".tmp"
TmpPath == "retry.json.tmp"
Names == {"retry.json", "retry.json.tmp"}
NoFile == 0
\* every name and every open descriptor can hold one inode
Inodes == 1..(Cardinality(Names) + Cardinality(Procs))

VARIABLES
    stateDir,      \* the state directory exists
    dir,           \* directory of stateDir: file name -> inode, or NoFile
    inode,         \* inode -> file content (a sequence of tokens)
    pc,            \* where each tool invocation stands
    args,          \* the call in progress: [op, spec, phase]
    MaxRetries,    \* Executor.MaxRetries of each invocation
    retryState,    \* the *RetryState the invocation holds
    phaseInfo,     \* progress.PhaseInfo.RetryCount: the count as loaded
    result,        \* the *PhaseResult being built
    retErr,        \* the error the call returns
    incrementErr,  \* what retryState.Increment() returned
    storeErr,      \* what the last loadStore returned: "none" before any
    path,          \* which caller SaveRetryState returns to
    data,          \* the marshalled store SaveRetryState writes
    fd,            \* the inode os.WriteFile holds open, or NoFile
    off,           \* the write offset of that descriptor
    reported,      \* per key: the ceiling under which the caller was last told Exhausted, or -1
    attempt,       \* the caller's count of ExecutePhase runs issued
    config,        \* the PhaseConfig the phase flags were parsed into
    order,         \* the execution list the multi-phase run works through
    ran,           \* the phases the run has attempted so far, with their outcomes
    runpc,         \* where the multi-phase run stands: "flags", "phases", "stopped"
    apc,           \* where runCommand stands: "idle", "start", "select", "wait_done", "returned"
    hasTimeout,    \* opts.Timeout > 0: applyTimeout gave the context a deadline
    capture,       \* opts.Stdout / opts.Stderr are nil: output is copied through pipes
    ctxErr,        \* ctx.Err(): nil until the context is done
    child,         \* the child process: "none", "running", "zombie", "reaped"
    killed,        \* SIGKILL was sent to the child
    exitStatus,    \* the exit code of the child, -1 when a signal ended it
    holder,        \* a descendant of the child holds the write end of an output pipe
    waiter,        \* the goroutine around cmd.Wait: "none", "waiting", "copy", "finished"
    done,          \* the buffered channel done (capacity 1)
    agentRet,      \* what runCommand returned: [result, err]
    template,      \* the command template a custom agent is configured with
    agent,         \* the *CustomAgent NewCustomAgent returned: [template, useShell, ok]
    agentErr,      \* the error NewCustomAgent returned
    prompt,        \* the prompt of the last BuildCommand
    cmd,           \* the *exec.Cmd BuildCommand returned: its Args, << >> when nil
    cmdErr,        \* the error BuildCommand returned
    branchSpec,    \* a spec can be detected from the git branch
    artifacts,     \* the artifact files the spec directory holds
    preflight,     \* the *PreflightResult of the run
    runErr,        \* the error runPhaseWorkflow returned
    tasks,         \* tasks.md: how many tasks it lists under each status
    validated,     \* the last call into package validation: [op, arg, err, code, retry]
    agents,        \* Registry.agents: the map from a name to the agent registered under it
    mu,            \* Registry.mu: [w: the goroutine holding the write lock, r: the readers]
    reg,           \* each goroutine's call into the registry: position, arguments, locals
    withRetry      \* the ExecuteWithRetry call: position, maxAttempts, attempt, lastErr, ret

fsVars == <<stateDir, dir, inode>>
procVars == <<pc, args, MaxRetries, retryState, phaseInfo, result, retErr,
              incrementErr, storeErr, path, data, fd, off>>
runVars == <<config, order, ran, runpc, branchSpec, artifacts, preflight, runErr>>
agentVars == <<apc, hasTimeout, capture, ctxErr, child, killed, exitStatus, holder,
               waiter, done, agentRet>>
cmdVars == <<template, agent, agentErr, prompt, cmd, cmdErr>>
valVars == <<tasks, validated>>
regVars == <<agents, mu, reg>>
callerVars == <<reported, attempt, runVars, agentVars, cmdVars, valVars, regVars, withRetry>>
vars == <<fsVars, procVars, callerVars>>

NewPhaseResult(phase) ==
    [Phase |-> phase, Success |-> FALSE, Error |-> nil, RetryCount |-> 0, Exhausted |-> FALSE]

NoArgs == [op |-> "", spec |-> "", phase |-> ""]
NoReport == -1

(* ---------------------------- file system ------------------------------- *)
\* unreferenced inodes are released: their content is dropped
Release(d, f, ino) ==
    [i \in Inodes |->
        IF (\E n \in Names : d[n] = i) \/ (\E p \in Procs : f[p] = i) THEN ino[i] ELSE << >>]

FreeInode(d, f) ==
    CHOOSE i \in Inodes :
        /\ \A n \in Names : d[n] # i
        /\ \A p \in Procs : f[p] # i
        /\ \A j \in Inodes :
              ((\A n \in Names : d[n] # j) /\ (\A p \in Procs : f[p] # j)) => i <= j

\* the bytes of a named file, or NoFile's empty content when it is absent
Exists(name) == stateDir /\ dir[name] # NoFile
Content(name) == IF Exists(name) THEN inode[dir[name]] ELSE << >>

\* pwrite semantics of one write call: overlay chunk at offset, zero-fill a hole
WriteAt(content, offset, chunk) ==
    LET end == offset + Len(chunk)
        len == IF Len(content) > end THEN Len(content) ELSE end
    IN [i \in 1..len |->
          IF i > offset /\ i <= end THEN chunk[i - offset]
          ELSE IF i <= Len(content) THEN content[i]
          ELSE ZeroTok]

(* ------------------------------ package retry --------------------------- *)
\* loadStore: os.ReadFile + json.Unmarshal; Retries defaults to the empty map
loadStore ==
    IF ~Exists(RetryPath) THEN [store |-> << >>, err |-> NotExistError, kind |-> "notexist"]
    ELSE IF ~WellFormed(Content(RetryPath))
         THEN [store |-> << >>,
               err |-> Wrap("failed to unmarshal retry state", SyntaxError),
               kind |-> "unmarshal"]
         ELSE [store |-> Unmarshal(Content(RetryPath)), err |-> nil, kind |-> "ok"]

\* faulty variant: a parse error of the ledger is returned to the caller
LoadRetryStatePropagates(specName, phase, maxRetries) ==
    LET ls == loadStore
    IN IF ls.kind = "unmarshal"
       THEN [state |-> ZeroRetryState, err |-> ls.err, kind |-> ls.kind]
       ELSE IF ls.err = nil /\ Key(specName, phase) \in DOMAIN ls.store
            THEN [state |-> [ls.store[Key(specName, phase)] EXCEPT !.MaxRetries = maxRetries],
                  err |-> nil, kind |-> ls.kind]
            ELSE [state |-> NewRetryState(specName, phase, maxRetries), err |-> nil, kind |-> ls.kind]

\* faulty variant: the persisted record is never found
LoadRetryStateFresh(specName, phase, maxRetries) ==
    [state |-> NewRetryState(specName, phase, maxRetries), err |-> nil, kind |-> loadStore.kind]

\* faulty variant: the persisted ceiling is returned, not the run's
LoadRetryStateKeepsCeiling(specName, phase, maxRetries) ==
    LET ls == loadStore
    IN IF ls.err # nil
       THEN [state |-> NewRetryState(specName, phase, maxRetries), err |-> nil, kind |-> ls.kind]
       ELSE IF Key(specName, phase) \in DOMAIN ls.store
            THEN [state |-> ls.store[Key(specName, phase)], err |-> nil, kind |-> ls.kind]
            ELSE [state |-> NewRetryState(specName, phase, maxRetries), err |-> nil, kind |-> ls.kind]

\* LoadRetryState: the record, the (always nil) error, and what loadStore saw
LoadRetryState(specName, phase, maxRetries) ==
    LET ls == loadStore
    IN IF ls.err # nil
       THEN [state |-> NewRetryState(specName, phase, maxRetries), err |-> nil, kind |-> ls.kind]
       ELSE IF Key(specName, phase) \in DOMAIN ls.store
            THEN [state |-> [ls.store[Key(specName, phase)] EXCEPT !.MaxRetries = maxRetries],
                  err |-> nil, kind |-> ls.kind]
            ELSE [state |-> NewRetryState(specName, phase, maxRetries), err |-> nil, kind |-> ls.kind]

\* faulty variant: the store is replaced instead of merged into
MergeReplacesStore(store, state) ==
    [k \in {Key(state.SpecName, state.Phase)} |-> state]

\* faulty variant: a record back at count 0 is deleted from the store
MergeDeletesCleared(store, state) ==
    [k \in (IF state.Count = 0
            THEN DOMAIN store \ {Key(state.SpecName, state.Phase)}
            ELSE DOMAIN store \cup {Key(state.SpecName, state.Phase)}) |->
        IF k = Key(state.SpecName, state.Phase) THEN state ELSE store[k]]

\* store.Retries[key] = state
Merge(store, state) ==
    [k \in DOMAIN store \cup {Key(state.SpecName, state.Phase)} |->
        IF k = Key(state.SpecName, state.Phase) THEN state ELSE store[k]]

(* ------------------------- package workflow ----------------------------- *)
\* NewExecutor: a tool invocation is configured with its retry ceiling
NewExecutor(p, maxRetries) ==
    /\ pc[p] = "idle"
    /\ MaxRetries[p] # maxRetries
    /\ MaxRetries' = [MaxRetries EXCEPT ![p] = maxRetries]
    /\ UNCHANGED <<fsVars, pc, args, retryState, phaseInfo, result, retErr,
                   incrementErr, storeErr, path, data, fd, off>>

\* ExecutePhase, entry: result := &PhaseResult{Phase: phase, Success: false}
ExecutePhase(p, specName, phase) ==
    /\ pc[p] = "idle"
    /\ pc' = [pc EXCEPT ![p] = "load"]
    /\ args' = [args EXCEPT ![p] = [op |-> "ExecutePhase", spec |-> specName, phase |-> phase]]
    /\ result' = [result EXCEPT ![p] = NewPhaseResult(phase)]
    /\ UNCHANGED <<fsVars, MaxRetries, retryState, phaseInfo, retErr,
                   incrementErr, storeErr, path, data, fd, off>>

\* loadPhaseRetryState + buildPhaseInfo
loadPhaseRetryState(p) ==
    /\ pc[p] = "load"
    /\ LET r == LoadRetryState(args[p].spec, args[p].phase, MaxRetries[p])
       IN /\ storeErr' = [storeErr EXCEPT ![p] = r.kind]
          /\ IF r.err # nil
             THEN /\ retErr' = [retErr EXCEPT ![p] = Wrap("failed to load retry state", r.err)]
                  /\ pc' = [pc EXCEPT ![p] = "done"]
                  /\ UNCHANGED <<retryState, phaseInfo>>
             ELSE /\ retryState' = [retryState EXCEPT ![p] = r.state]
                  /\ phaseInfo' = [phaseInfo EXCEPT ![p] = r.state.Count]
                  /\ pc' = [pc EXCEPT ![p] = "exec"]
                  /\ UNCHANGED retErr
    /\ UNCHANGED <<fsVars, args, MaxRetries, result, incrementErr, path, data, fd, off>>

\* faulty variant: every failure is flagged Exhausted, retryable or not
handleRetryIncrementFlagsAll(p, res, originalErr, exhaustedMsg, now) ==
    LET inc == Increment(retryState[p], now)
    IN /\ incrementErr' = [incrementErr EXCEPT ![p] = inc.err]
       /\ retryState' = [retryState EXCEPT ![p] = inc.state]
       /\ result' = [result EXCEPT ![p] = [res EXCEPT !.Exhausted = TRUE]]
       /\ path' = [path EXCEPT ![p] = IF inc.err # nil THEN "exhausted" ELSE "retry"]
       /\ retErr' = [retErr EXCEPT ![p] =
                       IF inc.err # nil THEN Wrap(exhaustedMsg, originalErr) ELSE @]
       /\ pc' = [pc EXCEPT ![p] = "save"]

\* handleRetryIncrement up to its call of SaveRetryState; res is the result
\* with Error already set by handleExecutionError / handleValidationError
handleRetryIncrement(p, res, originalErr, exhaustedMsg, now) ==
    LET inc == Increment(retryState[p], now)
    IN /\ incrementErr' = [incrementErr EXCEPT ![p] = inc.err]
       /\ retryState' = [retryState EXCEPT ![p] = inc.state]
       /\ IF inc.err # nil
          THEN IF ErrorsAs(inc.err, "RetryExhaustedError")
               THEN /\ result' = [result EXCEPT ![p] =
                                    [res EXCEPT !.Exhausted = TRUE, !.RetryCount = inc.err[1].Count]]
                    /\ retErr' = [retErr EXCEPT ![p] = Wrap(exhaustedMsg, originalErr)]
                    /\ path' = [path EXCEPT ![p] = "exhausted"]
                    /\ pc' = [pc EXCEPT ![p] = "save"]
               ELSE /\ result' = [result EXCEPT ![p] = res]
                    /\ retErr' = [retErr EXCEPT ![p] = inc.err]
                    /\ pc' = [pc EXCEPT ![p] = "done"]
                    /\ UNCHANGED path
          ELSE /\ result' = [result EXCEPT ![p] = res]
               /\ path' = [path EXCEPT ![p] = "retry"]
               /\ pc' = [pc EXCEPT ![p] = "save"]
               /\ UNCHANGED retErr

\* an ExecutePhase that notes the agent's error and validates all the same
ClaudeExecuteThenValidate(p, ok) ==
    /\ pc[p] = "exec"
    /\ pc' = [pc EXCEPT ![p] = "validate"]
    /\ result' = [result EXCEPT ![p] =
                    IF ok THEN @ ELSE [@ EXCEPT !.Error = Wrap("command execution failed", AgentError)]]
    /\ UNCHANGED <<retryState, retErr, incrementErr, path>>
    /\ UNCHANGED <<fsVars, args, MaxRetries, phaseInfo, storeErr, data, fd, off>>

\* an ExecutePhase with a retry loop of its own: a failed invocation is
\* repeated within the call while the record allows another attempt
ClaudeExecuteRetries(p, ok) ==
    /\ pc[p] = "exec"
    /\ IF ok
       THEN /\ pc' = [pc EXCEPT ![p] = "validate"]
            /\ UNCHANGED <<retryState, result, retErr, incrementErr, path>>
       ELSE \E now \in Clock :
              IF CanRetry(Increment(retryState[p], now).state)
              THEN /\ retryState' = [retryState EXCEPT ![p] = Increment(@, now).state]
                   /\ UNCHANGED <<pc, result, retErr, incrementErr, path>>
              ELSE handleRetryIncrement(p,
                       [result[p] EXCEPT !.Error = Wrap("command execution failed", AgentError)],
                       AgentError, "retry limit exhausted", now)
    /\ UNCHANGED <<fsVars, args, MaxRetries, phaseInfo, storeErr, data, fd, off>>

\* e.Claude.Execute(command); on error handleExecutionError
ClaudeExecute(p, ok) ==
    /\ pc[p] = "exec"
    /\ IF ok
       THEN /\ pc' = [pc EXCEPT ![p] = "validate"]
            /\ UNCHANGED <<retryState, result, retErr, incrementErr, path>>
       ELSE \E now \in Clock :
              handleRetryIncrement(p,
                  [result[p] EXCEPT !.Error = Wrap("command execution failed", AgentError)],
                  AgentError, "retry limit exhausted", now)
    /\ UNCHANGED <<fsVars, args, MaxRetries, phaseInfo, storeErr, data, fd, off>>

\* validateFunc(specDir); on error handleValidationError, else completePhaseSuccess
Validate(p, ok) ==
    /\ pc[p] = "validate"
    /\ IF ok
       THEN /\ pc' = [pc EXCEPT ![p] = "reset_load"]
            /\ UNCHANGED <<retryState, result, retErr, incrementErr, path>>
       ELSE \E now \in Clock :
              handleRetryIncrement(p,
                  [result[p] EXCEPT !.Error = Wrap("validation failed", ValidationError)],
                  ValidationError, "validation failed and retry exhausted", now)
    /\ UNCHANGED <<fsVars, args, MaxRetries, phaseInfo, storeErr, data, fd, off>>

\* Executor.ResetPhase, entry
ResetPhase(p, specName, phase) ==
    /\ pc[p] = "idle"
    /\ pc' = [pc EXCEPT ![p] = "reset_load"]
    /\ args' = [args EXCEPT ![p] = [op |-> "ResetPhase", spec |-> specName, phase |-> phase]]
    /\ UNCHANGED <<fsVars, MaxRetries, retryState, phaseInfo, result, retErr,
                   incrementErr, storeErr, path, data, fd, off>>

\* ResetRetryCount up to its call of SaveRetryState: load with 3, Reset
ResetRetryCount(p) ==
    /\ pc[p] = "reset_load"
    /\ LET r == LoadRetryState(args[p].spec, args[p].phase, ResetMaxRetries)
       IN /\ storeErr' = [storeErr EXCEPT ![p] = r.kind]
          /\ IF r.err # nil
             THEN /\ pc' = [pc EXCEPT ![p] = "done"]
                  /\ result' = [result EXCEPT ![p] =
                                  IF args[p].op = "ExecutePhase"
                                  THEN [@ EXCEPT !.Success = TRUE, !.RetryCount = 0] ELSE @]
                  /\ UNCHANGED <<retryState, path>>
             ELSE /\ retryState' = [retryState EXCEPT ![p] = Reset(r.state)]
                  /\ path' = [path EXCEPT ![p] =
                                IF args[p].op = "ExecutePhase" THEN "success" ELSE "reset"]
                  /\ pc' = [pc EXCEPT ![p] = "save"]
                  /\ UNCHANGED result
    /\ UNCHANGED <<fsVars, args, MaxRetries, phaseInfo, retErr, incrementErr, data, fd, off>>

(* ----------------------- SaveRetryState, step by step ------------------- *)
\* os.MkdirAll, loadStore, store.Retries[key] = state, json.MarshalIndent
SaveRetryState(p) ==
    /\ pc[p] = "save"
    /\ LET ls == loadStore
           store == IF ls.err # nil THEN << >> ELSE ls.store
       IN /\ storeErr' = [storeErr EXCEPT ![p] = ls.kind]
          /\ data' = [data EXCEPT ![p] = Marshal(Merge(store, retryState[p]))]
    /\ stateDir' = TRUE
    /\ pc' = [pc EXCEPT ![p] = "save_open"]
    /\ UNCHANGED <<dir, inode, args, MaxRetries, retryState, phaseInfo, result, retErr,
                   incrementErr, path, fd, off>>

\* os.WriteFile(tmpPath, ...): OpenFile(O_WRONLY|O_CREATE|O_TRUNC)
WriteFileOpen(p) ==
    /\ pc[p] = "save_open"
    /\ LET i == IF dir[TmpPath] # NoFile THEN dir[TmpPath] ELSE FreeInode(dir, fd)
       IN /\ dir' = [dir EXCEPT ![TmpPath] = i]
          /\ fd' = [fd EXCEPT ![p] = i]
          /\ inode' = [inode EXCEPT ![i] = << >>]
    /\ off' = [off EXCEPT ![p] = 0]
    /\ pc' = [pc EXCEPT ![p] = "save_write"]
    /\ UNCHANGED <<stateDir, args, MaxRetries, retryState, phaseInfo, result, retErr,
                   incrementErr, storeErr, path, data>>

\* os.WriteFile: f.Write(data) in one or more write calls, then f.Close()
WriteFileWrite(p, n) ==
    /\ pc[p] = "save_write"
    /\ n \in 1..(Len(data[p]) - off[p])
    /\ LET written == [inode EXCEPT ![fd[p]] =
                          WriteAt(@, off[p], SubSeq(data[p], off[p] + 1, off[p] + n))]
           closed == off[p] + n = Len(data[p])
           fd2 == IF closed THEN [fd EXCEPT ![p] = NoFile] ELSE fd
       IN /\ fd' = fd2
          /\ inode' = Release(dir, fd2, written)
          /\ pc' = [pc EXCEPT ![p] = IF closed THEN "save_rename" ELSE "save_write"]
    /\ off' = [off EXCEPT ![p] = off[p] + n]
    /\ UNCHANGED <<stateDir, dir, args, MaxRetries, retryState, phaseInfo, result, retErr,
                   incrementErr, storeErr, path, data>>

\* faulty variant: a retryable failure is returned with a nil error
FinishSwallowsFailure(p, saveErr) ==
    /\ pc' = [pc EXCEPT ![p] = IF path[p] = "api" THEN "api" ELSE "done"]
    /\ result' = [result EXCEPT ![p] =
                    IF path[p] = "retry" /\ saveErr = nil
                    THEN [@ EXCEPT !.RetryCount = retryState[p].Count]
                    ELSE IF path[p] = "success"
                    THEN [@ EXCEPT !.Success = TRUE, !.RetryCount = 0]
                    ELSE @]
    /\ retErr' = [retErr EXCEPT ![p] =
                    IF path[p] = "retry"
                    THEN (IF saveErr = nil THEN nil
                          ELSE Wrap("failed to save retry state", saveErr))
                    ELSE IF path[p] = "exhausted" THEN @
                    ELSE IF path[p] = "success" THEN nil
                    ELSE saveErr]

\* what the caller of SaveRetryState does with its error, down to the return
Finish(p, saveErr) ==
    /\ pc' = [pc EXCEPT ![p] = IF path[p] = "api" THEN "api" ELSE "done"]
    /\ result' = [result EXCEPT ![p] =
                    IF path[p] = "retry" /\ saveErr = nil
                    THEN [@ EXCEPT !.RetryCount = retryState[p].Count]
                    ELSE IF path[p] = "success"
                    THEN [@ EXCEPT !.Success = TRUE, !.RetryCount = 0]
                    ELSE @]
    /\ retErr' = [retErr EXCEPT ![p] =
                    IF path[p] = "retry"
                    THEN (IF saveErr = nil THEN result[p].Error
                          ELSE Wrap("failed to save retry state", saveErr))
                    ELSE IF path[p] = "exhausted" THEN @
                    ELSE IF path[p] = "success" THEN nil
                    ELSE saveErr]

\* os.Rename(tmpPath, retryPath), then the return to the caller
Rename(p) ==
    /\ pc[p] = "save_rename"
    /\ IF dir[TmpPath] = NoFile
       THEN /\ Finish(p, Wrap("failed to rename temp file", NotExistError))
            /\ UNCHANGED <<dir, inode>>
       ELSE LET d2 == [n \in Names |->
                         IF n = RetryPath THEN dir[TmpPath]
                         ELSE IF n = TmpPath THEN NoFile ELSE dir[n]]
            IN /\ dir' = d2
               /\ inode' = Release(d2, fd, inode)
               /\ Finish(p, nil)
    /\ UNCHANGED <<stateDir, args, MaxRetries, retryState, phaseInfo,
                   incrementErr, storeErr, path, data, fd, off>>

\* os.WriteFile(tmpPath, ...) fails to open the temp file: SaveRetryState
\* returns "failed to write temp file" to its caller
WriteFileFails(p) ==
    /\ pc[p] = "save_open"
    /\ Finish(p, Wrap("failed to write temp file", PermissionError))
    /\ UNCHANGED <<fsVars, args, MaxRetries, retryState, phaseInfo,
                   incrementErr, storeErr, path, data, fd, off>>

\* the locals of a call are gone once it has returned
Cleared(p) ==
    /\ pc' = [pc EXCEPT ![p] = "idle"]
    /\ args' = [args EXCEPT ![p] = NoArgs]
    /\ retryState' = [retryState EXCEPT ![p] = ZeroRetryState]
    /\ phaseInfo' = [phaseInfo EXCEPT ![p] = 0]
    /\ result' = [result EXCEPT ![p] = NewPhaseResult("")]
    /\ retErr' = [retErr EXCEPT ![p] = nil]
    /\ incrementErr' = [incrementErr EXCEPT ![p] = nil]
    /\ storeErr' = [storeErr EXCEPT ![p] = "none"]
    /\ path' = [path EXCEPT ![p] = ""]
    /\ data' = [data EXCEPT ![p] = << >>]
    /\ off' = [off EXCEPT ![p] = 0]

\* the call returns (result, err) to its caller
Return(p) ==
    /\ pc[p] = "done"
    /\ Cleared(p)
    /\ UNCHANGED <<fsVars, MaxRetries, fd>>

\* the process dies: its descriptor is closed, nothing else is undone
Crash(p) ==
    /\ pc[p] \notin {"idle", "done"}
    /\ Cleared(p)
    /\ fd' = [fd EXCEPT ![p] = NoFile]
    /\ inode' = Release(dir, [fd EXCEPT ![p] = NoFile], inode)
    /\ UNCHANGED <<stateDir, dir, MaxRetries>>

(* --------------------- direct use of package retry ---------------------- *)
\* a client of package retry holds one record and calls its methods on it
ApiLoad(p, specName, phase) ==
    /\ pc[p] \in {"idle", "api"}
    /\ LET r == LoadRetryState(specName, phase, MaxRetries[p])
       IN /\ retryState' = [retryState EXCEPT ![p] = r.state]
          /\ storeErr' = [storeErr EXCEPT ![p] = r.kind]
          /\ retErr' = [retErr EXCEPT ![p] = r.err]
    /\ args' = [args EXCEPT ![p] = [op |-> "api", spec |-> specName, phase |-> phase]]
    /\ incrementErr' = [incrementErr EXCEPT ![p] = nil]
    /\ pc' = [pc EXCEPT ![p] = "api"]
    /\ UNCHANGED <<fsVars, MaxRetries, phaseInfo, result, path, data, fd, off>>

ApiIncrement(p, now) ==
    /\ pc[p] = "api"
    /\ LET inc == Increment(retryState[p], now)
       IN /\ retryState' = [retryState EXCEPT ![p] = inc.state]
          /\ incrementErr' = [incrementErr EXCEPT ![p] = inc.err]
    /\ UNCHANGED <<fsVars, pc, args, MaxRetries, phaseInfo, result, retErr,
                   storeErr, path, data, fd, off>>

ApiReset(p) ==
    /\ pc[p] = "api"
    /\ retryState' = [retryState EXCEPT ![p] = Reset(retryState[p])]
    /\ incrementErr' = [incrementErr EXCEPT ![p] = nil]
    /\ UNCHANGED <<fsVars, pc, args, MaxRetries, phaseInfo, result, retErr,
                   storeErr, path, data, fd, off>>

ApiSave(p) ==
    /\ pc[p] = "api"
    /\ pc' = [pc EXCEPT ![p] = "save"]
    /\ path' = [path EXCEPT ![p] = "api"]
    /\ UNCHANGED <<fsVars, args, MaxRetries, retryState, phaseInfo, result, retErr,
                   incrementErr, storeErr, data, fd, off>>

(* --------------------------- the phase sequencer ------------------------ *)
\* the spec and phase the single-key scenarios work on
ScenarioKey == KeyOrder[1]

PhaseSpecify == "specify"
PhasePlan == "plan"
PhaseTasks == "tasks"
PhaseImplement == "implement"
PhaseConstitution == "constitution"
PhaseClarify == "clarify"
PhaseChecklist == "checklist"
PhaseAnalyze == "analyze"

\* getPhaseNumber: the position of a phase in the canonical order, 0 if unknown
getPhaseNumber(phase) ==
    CASE phase = PhaseConstitution -> 1
      [] phase = PhaseSpecify -> 2
      [] phase = PhaseClarify -> 3
      [] phase = PhasePlan -> 4
      [] phase = PhaseTasks -> 5
      [] phase = PhaseChecklist -> 6
      [] phase = PhaseAnalyze -> 7
      [] phase = PhaseImplement -> 8
      [] OTHER -> 0

\* type PhaseConfig: one flag per phase and the -a flag
PhaseConfigs ==
    [Specify : BOOLEAN, Plan : BOOLEAN, Tasks : BOOLEAN, Implement : BOOLEAN, All : BOOLEAN]

NoPhaseConfig ==
    [Specify |-> FALSE, Plan |-> FALSE, Tasks |-> FALSE, Implement |-> FALSE, All |-> FALSE]

\* Normalize expands the -a flag to all phases
Normalize(c) ==
    IF c.All
    THEN [c EXCEPT !.Specify = TRUE, !.Plan = TRUE, !.Tasks = TRUE, !.Implement = TRUE]
    ELSE c

HasAnyPhase(c) == c.Specify \/ c.Plan \/ c.Tasks \/ c.Implement \/ c.All

\* faulty variant: tasks is appended ahead of plan
GetExecutionOrderTasksFirst(c) ==
    LET n == Normalize(c)
    IN (IF n.Specify THEN <<PhaseSpecify>> ELSE << >>)
       \o (IF n.Tasks THEN <<PhaseTasks>> ELSE << >>)
       \o (IF n.Plan THEN <<PhasePlan>> ELSE << >>)
       \o (IF n.Implement THEN <<PhaseImplement>> ELSE << >>)

\* GetExecutionOrder: Normalize, then one append per flag that is set
GetExecutionOrder(c) ==
    LET n == Normalize(c)
    IN (IF n.Specify THEN <<PhaseSpecify>> ELSE << >>)
       \o (IF n.Plan THEN <<PhasePlan>> ELSE << >>)
       \o (IF n.Tasks THEN <<PhaseTasks>> ELSE << >>)
       \o (IF n.Implement THEN <<PhaseImplement>> ELSE << >>)

\* the root command's RunE and runPhaseWorkflow: no flag shows the help; a
\* failed preflight (or a refused confirmation) ends the run before any phase;
\* otherwise the flags are normalised and the execution list is built
\* the *PreflightResult before any check has filled it
NoPreflight ==
    [Error |-> nil, NeedsNewSpec |-> FALSE, HasSpec |-> FALSE, HasPlan |-> FALSE,
     HasTasks |-> FALSE, Warnings |-> << >>, Hints |-> << >>, NeedsConfirmation |-> FALSE]

NoSpecDetected == <<ErrLayer("errorString", "no spec detected from branch")>>
DescriptionRequired == <<ErrLayer("errorString", "feature description required with -s/--specify")>>
AbortedByUser == <<ErrLayer("errorString", "aborted by user")>>

SpecFile == "spec.md"
PlanFile == "plan.md"
TasksFile == "tasks.md"
ArtifactFiles == {SpecFile, PlanFile, TasksFile}

AddWarning(r, w, h) == [r EXCEPT !.Warnings = Append(@, w), !.Hints = Append(@, h)]

warnPlan(r, phases) ==
    IF phases.Plan /\ ~phases.Specify /\ ~r.HasSpec
    THEN AddWarning(r, "spec.md not found (required for plan phase)",
                    "Consider running with -s to generate spec first")
    ELSE r

warnTasks(r, phases) ==
    IF phases.Tasks /\ ~phases.Plan /\ ~r.HasPlan
    THEN AddWarning(r, "plan.md not found (required for tasks phase)",
                    "Consider running with -p to generate plan first")
    ELSE r

warnImplement(r, phases) ==
    IF phases.Implement /\ ~phases.Tasks /\ ~r.HasTasks
    THEN AddWarning(r, "tasks.md not found (required for implement phase)",
                    "Consider running with -t to generate tasks first")
    ELSE r

\* faulty variant: a missing spec is an error even when specify is requested
checkPrerequisitesNoNewSpec(phases) ==
    IF ~branchSpec THEN [NoPreflight EXCEPT !.Error = NoSpecDetected]
    ELSE NoPreflight

\* checkPrerequisites: step 1 resolves the spec, step 2 looks for the
\* artifacts, step 3 collects the warnings, step 4 asks for confirmation
checkPrerequisites(phases) ==
    IF ~branchSpec
    THEN IF phases.Specify THEN [NoPreflight EXCEPT !.NeedsNewSpec = TRUE]
         ELSE [NoPreflight EXCEPT !.Error = NoSpecDetected]
    ELSE LET found == [NoPreflight EXCEPT !.HasSpec = SpecFile \in artifacts,
                                          !.HasPlan = PlanFile \in artifacts,
                                          !.HasTasks = TasksFile \in artifacts]
             warned == warnImplement(warnTasks(warnPlan(found, phases), phases), phases)
         IN  [warned EXCEPT !.NeedsConfirmation = Len(warned.Warnings) > 0]

runPhaseWorkflow(hasArgs, yes) ==
    /\ runpc = "flags"
    /\ IF ~HasAnyPhase(config)
       THEN /\ runpc' = "stopped"
            /\ UNCHANGED <<config, order, preflight, runErr>>
       ELSE /\ config' = Normalize(config)
            /\ IF config'.Specify /\ ~hasArgs
               THEN /\ runErr' = DescriptionRequired
                    /\ runpc' = "stopped"
                    /\ UNCHANGED <<order, preflight>>
               ELSE /\ preflight' = checkPrerequisites(config')
                    /\ IF preflight'.Error # nil
                       THEN /\ runErr' = preflight'.Error
                            /\ runpc' = "stopped"
                            /\ UNCHANGED order
                       ELSE IF preflight'.NeedsConfirmation /\ ~yes
                       THEN /\ runErr' = AbortedByUser
                            /\ runpc' = "stopped"
                            /\ UNCHANGED order
                       ELSE /\ order' = GetExecutionOrder(config')
                            /\ runpc' = "phases"
                            /\ UNCHANGED runErr
    /\ UNCHANGED <<fsVars, procVars, reported, attempt, ran, branchSpec, artifacts,
                   agentVars, cmdVars, valVars, regVars, withRetry>>

\* the run hands the next phase of the list to the executor
executePhasesCall ==
    /\ runpc = "phases"
    /\ Len(ran) < Len(order)
    /\ ExecutePhase(1, ScenarioKey[1], order[Len(ran) + 1])
    /\ UNCHANGED callerVars

\* the run takes the phase's (result, err): an error ends the run
executePhasesReturn ==
    /\ runpc = "phases"
    /\ Return(1)
    /\ ran' = Append(ran, [Phase |-> result[1].Phase, Success |-> result[1].Success,
                           Failed |-> retErr[1] # nil])
    /\ runpc' = IF retErr[1] # nil \/ Len(ran) + 1 = Len(order) THEN "stopped" ELSE "phases"
    /\ UNCHANGED <<reported, attempt, config, order, branchSpec, artifacts, preflight,
                   runErr, agentVars, cmdVars, valVars, regVars, withRetry>>

(* ------------------- package cliagent: runCommand ----------------------- *)
ExitCodes == 0..MaxExit
\* ExitError.ExitCode() of a process a signal ended
SignalExit == 0 - 1

\* *exec.ExitError: the child was waited for and did not exit with status 0
ExitError(code) == << [ErrLayer("ExitError", "exit status") EXCEPT !.Count = code] >>
\* any other error of cmd.Wait: copying the child's output failed
CopyError == <<ErrLayer("PathError", "read |0: input/output error")>>
StartError == <<ErrLayer("PathError", "fork/exec: no such file or directory")>>
DeadlineExceeded == <<ErrLayer("DeadlineExceededError", "context deadline exceeded")>>
Canceled == <<ErrLayer("CanceledError", "context canceled")>>

NoResult == << >>
\* &Result{...} with its ExitCode
Result(code) == << [ExitCode |-> code] >>

\* cmd.Wait's error once the child is reaped and its output copied
WaitErr(status, ioErr) ==
    IF status # 0 THEN ExitError(status)
    ELSE IF ioErr THEN CopyError
    ELSE nil

\* faulty variant: an exit status other than 0 is returned as an error
runCommandResultExitIsError(err) ==
    IF err = nil THEN [result |-> Result(0), err |-> nil]
    ELSE [result |-> NoResult, err |-> Wrap("executing custom agent", err)]

\* runCommand after the select took Wait's error from done
runCommandResult(err) ==
    IF err = nil THEN [result |-> Result(0), err |-> nil]
    ELSE IF err[1].type = "ExitError" THEN [result |-> Result(err[1].Count), err |-> nil]
    ELSE [result |-> NoResult, err |-> Wrap("executing custom agent", err)]

\* runCommand, entry: applyTimeout, the output buffers
runCommand(timeout, captured) ==
    /\ apc = "idle"
    /\ apc' = "start"
    /\ hasTimeout' = timeout
    /\ capture' = captured
    /\ UNCHANGED <<ctxErr, child, killed, exitStatus, holder, waiter, done, agentRet>>

\* cmd.Start(), then done := make(chan error, 1) and go func() { done <- cmd.Wait() }()
CmdStart(ok, forks) ==
    /\ apc = "start"
    /\ IF ok
       THEN /\ child' = "running"
            /\ holder' = (forks /\ capture)
            /\ waiter' = "waiting"
            /\ apc' = "select"
            /\ UNCHANGED agentRet
       ELSE /\ agentRet' = [result |-> NoResult, err |-> Wrap("starting custom agent", StartError)]
            /\ apc' = "returned"
            /\ UNCHANGED <<child, holder, waiter>>
    /\ UNCHANGED <<hasTimeout, capture, ctxErr, killed, exitStatus, done>>

\* the deadline of applyTimeout's context passes, or the caller's context is cancelled
CtxDone(err) ==
    /\ apc \in {"start", "select"}
    /\ ctxErr = nil
    /\ err = DeadlineExceeded => hasTimeout
    /\ ctxErr' = err
    /\ UNCHANGED <<apc, hasTimeout, capture, child, killed, exitStatus, holder, waiter,
                   done, agentRet>>

\* the child process ends on its own
ChildExits(code) ==
    /\ child = "running"
    /\ ~killed
    /\ child' = "zombie"
    /\ exitStatus' = code
    /\ UNCHANGED <<apc, hasTimeout, capture, ctxErr, killed, holder, waiter, done, agentRet>>

\* the child process is ended by the SIGKILL of cmd.Process.Kill()
ChildKilled ==
    /\ child = "running"
    /\ killed
    /\ child' = "zombie"
    /\ exitStatus' = SignalExit
    /\ UNCHANGED <<apc, hasTimeout, capture, ctxErr, killed, holder, waiter, done, agentRet>>

\* the descendant that inherited the output pipe ends or closes it
DescendantExits ==
    /\ holder
    /\ holder' = FALSE
    /\ UNCHANGED <<apc, hasTimeout, capture, ctxErr, child, killed, exitStatus, waiter,
                   done, agentRet>>

\* cmd.Wait: Process.Wait returns once the child has ended, and reaps it
WaitReaps ==
    /\ waiter = "waiting"
    /\ child = "zombie"
    /\ child' = "reaped"
    /\ waiter' = "copy"
    /\ UNCHANGED <<apc, hasTimeout, capture, ctxErr, killed, exitStatus, holder, done, agentRet>>

\* cmd.Wait: the output copiers end when every write end of the pipes is
\* closed; then Wait returns and the goroutine sends its error on done
WaitReturns(ioErr) ==
    /\ waiter = "copy"
    /\ ~holder
    /\ ioErr => capture
    /\ done' = <<WaitErr(exitStatus, ioErr)>>
    /\ waiter' = "finished"
    /\ UNCHANGED <<apc, hasTimeout, capture, ctxErr, child, killed, exitStatus, holder, agentRet>>

\* select, case <-ctx.Done(): _ = cmd.Process.Kill()
SelectCtxDone ==
    /\ apc = "select"
    /\ ctxErr # nil
    /\ killed' = TRUE
    /\ apc' = "wait_done"
    /\ UNCHANGED <<hasTimeout, capture, ctxErr, child, exitStatus, holder, waiter, done, agentRet>>

\* <-done after the kill, then return nil, "executing custom agent: ctx.Err()"
KilledReturn ==
    /\ apc = "wait_done"
    /\ done # << >>
    /\ done' = << >>
    /\ agentRet' = [result |-> NoResult, err |-> Wrap("executing custom agent", ctxErr)]
    /\ apc' = "returned"
    /\ UNCHANGED <<hasTimeout, capture, ctxErr, child, killed, exitStatus, holder, waiter>>

\* select, case err = <-done: the Result is built and returned
SelectDone ==
    /\ apc = "select"
    /\ done # << >>
    /\ done' = << >>
    /\ agentRet' = runCommandResult(done[1])
    /\ apc' = "returned"
    /\ UNCHANGED <<hasTimeout, capture, ctxErr, child, killed, exitStatus, holder, waiter>>

\* the steps of runCommand's own goroutine
MainSteps ==
    \/ (\E ok \in BOOLEAN, forks \in BOOLEAN : CmdStart(ok, forks))
    \/ SelectCtxDone
    \/ KilledReturn
    \/ SelectDone

\* the steps of the goroutine around cmd.Wait
WaiterSteps ==
    \/ WaitReaps
    \/ (\E ioErr \in BOOLEAN : WaitReturns(ioErr))

(* ------------------------------ the caller ------------------------------ *)
\* the CLI layer takes the outcome and remembers an Exhausted report until
\* the phase succeeds or is reset
ReturnToCaller(p) ==
    /\ Return(p)
    /\ LET k == Key(args[p].spec, args[p].phase)
       IN reported' =
            IF args[p].op = "ExecutePhase" /\ result[p].Exhausted
            THEN [reported EXCEPT ![k] = MaxRetries[p]]
            ELSE IF args[p].op = "ResetPhase" \/ result[p].Success
            THEN [reported EXCEPT ![k] = NoReport]
            ELSE reported
    /\ UNCHANGED <<attempt, runVars, agentVars, cmdVars, valVars, regVars, withRetry>>

(* ------------------- callers of the agent registry ---------------------- *)
\* the goroutines that share one Registry
Goroutines == {1, 2}

\* the nil Agent: what a map lookup yields for a missing key
NilAgent == [name |-> "", id |-> 0]

\* a goroutine that is not inside a call of the registry
NoCall ==
    [pc |-> "idle", op |-> "", name |-> "", agent |-> NilAgent, names |-> << >>,
     ret |-> NilAgent, panicked |-> FALSE]

\* no ExecuteWithRetry call has been made
NoLoop ==
    [pc |-> "idle", maxAttempts |-> 0, attempt |-> 0, lastErr |-> nil, ret |-> nil,
     calls |-> 0, succeeded |-> FALSE]

(* --------------------------- initial states ----------------------------- *)
\* ledgers json.Unmarshal rejects: an empty file, a document cut short
CorruptLedgers == { << >>, <<OpenTok>> }

InitFs(ledgers) ==
    /\ stateDir \in BOOLEAN
    /\ \/ /\ dir = [n \in Names |-> NoFile]
          /\ inode = [i \in Inodes |-> << >>]
       \/ /\ stateDir
          /\ dir = [n \in Names |-> IF n = RetryPath THEN 1 ELSE NoFile]
          /\ \E c \in ledgers : inode = [i \in Inodes |-> IF i = 1 THEN c ELSE << >>]

InitProcs ==
    /\ pc = [p \in Procs |-> "idle"]
    /\ args = [p \in Procs |-> NoArgs]
    /\ retryState = [p \in Procs |-> ZeroRetryState]
    /\ phaseInfo = [p \in Procs |-> 0]
    /\ result = [p \in Procs |-> NewPhaseResult("")]
    /\ retErr = [p \in Procs |-> nil]
    /\ incrementErr = [p \in Procs |-> nil]
    /\ storeErr = [p \in Procs |-> "none"]
    /\ path = [p \in Procs |-> ""]
    /\ data = [p \in Procs |-> << >>]
    /\ fd = [p \in Procs |-> NoFile]
    /\ off = [p \in Procs |-> 0]
    /\ reported = [k \in Keys |-> NoReport]
    /\ attempt = 0
    /\ order = << >>
    /\ ran = << >>
    /\ runpc = "flags"
    /\ preflight = [Error |-> << >>, NeedsNewSpec |-> FALSE, HasSpec |-> FALSE,
                    HasPlan |-> FALSE, HasTasks |-> FALSE, Warnings |-> << >>,
                    Hints |-> << >>, NeedsConfirmation |-> FALSE]
    /\ runErr = << >>
    /\ validated = [op |-> "", arg |-> "", err |-> << >>, code |-> 0 - 1, retry |-> FALSE]
    /\ agents = << >>
    /\ mu = [w |-> 0, r |-> {}]
    /\ reg = [g \in Goroutines |-> NoCall]
    /\ withRetry = NoLoop
    /\ apc = "idle"
    /\ hasTimeout = FALSE
    /\ capture = FALSE
    /\ ctxErr = nil
    /\ child = "none"
    /\ killed = FALSE
    /\ exitStatus = 0
    /\ holder = FALSE
    /\ waiter = "none"
    /\ done = << >>
    /\ agentRet = [result |-> << >>, err |-> nil]
    /\ agent = [template |-> << >>, useShell |-> FALSE, ok |-> FALSE]
    /\ agentErr = nil
    /\ prompt = << >>
    /\ cmd = << >>
    /\ cmdErr = nil

(* ---- Spec: one tool invocation after another, each a fresh Executor ---- *)
Init ==
    /\ InitFs(CorruptLedgers)
    /\ InitProcs
    /\ config = NoPhaseConfig
    /\ template = << >>
    /\ branchSpec = TRUE
    /\ artifacts = {}
    /\ tasks = [Pending |-> 0, InProgress |-> 0, Completed |-> 0, Blocked |-> 0]
    /\ MaxRetries = [p \in Procs |-> 0]

\* SaveRetryState with os.WriteFile completing in a single write call
SaveSteps(p) ==
    \/ SaveRetryState(p)
    \/ WriteFileOpen(p)
    \/ WriteFileWrite(p, Len(data[p]) - off[p])
    \/ Rename(p)

\* SaveRetryState with os.WriteFile's data split over any number of write calls
SaveStepsChunked(p) ==
    \/ SaveRetryState(p)
    \/ WriteFileOpen(p)
    \/ (\E n \in 1..(2 + EntryLen * Len(KeyOrder)) : WriteFileWrite(p, n))
    \/ Rename(p)

Next ==
    \/ (\E m \in Ceilings : NewExecutor(1, m)) /\ UNCHANGED callerVars
    \/ (\E k \in Keys : ExecutePhase(1, k[1], k[2])) /\ UNCHANGED callerVars
    \/ (\E k \in Keys : ResetPhase(1, k[1], k[2])) /\ UNCHANGED callerVars
    \/ loadPhaseRetryState(1) /\ UNCHANGED callerVars
    \/ (\E ok \in BOOLEAN : ClaudeExecute(1, ok)) /\ UNCHANGED callerVars
    \/ (\E ok \in BOOLEAN : Validate(1, ok)) /\ UNCHANGED callerVars
    \/ ResetRetryCount(1) /\ UNCHANGED callerVars
    \/ SaveSteps(1) /\ UNCHANGED callerVars
    \/ ReturnToCaller(1)

Spec == Init /\ [][Next]_vars

(* ---- SpecCeilings: runs for one key, each under a ceiling of its own ---- *)
NextCeilings ==
    \/ (\E m \in Ceilings : NewExecutor(1, m)) /\ UNCHANGED callerVars
    \/ ExecutePhase(1, ScenarioKey[1], ScenarioKey[2]) /\ UNCHANGED callerVars
    \/ loadPhaseRetryState(1) /\ UNCHANGED callerVars
    \/ (\E ok \in BOOLEAN : ClaudeExecute(1, ok)) /\ UNCHANGED callerVars
    \/ (\E ok \in BOOLEAN : Validate(1, ok)) /\ UNCHANGED callerVars
    \/ ResetRetryCount(1) /\ UNCHANGED callerVars
    \/ SaveSteps(1) /\ UNCHANGED callerVars
    \/ Return(1) /\ UNCHANGED callerVars

SpecCeilings == Init /\ [][NextCeilings]_vars

(* ---- SpecFailRuns: one key, one ceiling, every attempt fails ----------- *)
InitFailRuns ==
    /\ InitFs(CorruptLedgers)
    /\ InitProcs
    /\ config = NoPhaseConfig
    /\ template = << >>
    /\ branchSpec = TRUE
    /\ artifacts = {}
    /\ tasks = [Pending |-> 0, InProgress |-> 0, Completed |-> 0, Blocked |-> 0]
    /\ \E m \in Ceilings : MaxRetries = [p \in Procs |-> IF p = 1 THEN m ELSE 0]

NextFailRuns ==
    \/ /\ attempt < MaxRetries[1] + ExtraRuns
       /\ ExecutePhase(1, ScenarioKey[1], ScenarioKey[2])
       /\ attempt' = attempt + 1
       /\ UNCHANGED <<reported, runVars, agentVars, cmdVars, valVars, regVars, withRetry>>
    \/ loadPhaseRetryState(1) /\ UNCHANGED callerVars
    \/ (\E ok \in BOOLEAN : ClaudeExecute(1, ok)) /\ UNCHANGED callerVars
    \/ Validate(1, FALSE) /\ UNCHANGED callerVars
    \/ SaveSteps(1) /\ UNCHANGED callerVars
    \/ Return(1) /\ UNCHANGED callerVars

SpecFailRuns == InitFailRuns /\ [][NextFailRuns]_vars

\* the caller keeps re-invoking and every step of a call completes
SpecFailRunsLive == SpecFailRuns /\ WF_vars(NextFailRuns)

(* ---- SpecCrash: a single writer that may die at any step --------------- *)
NextCrash ==
    \/ (\E k \in Keys : ExecutePhase(1, k[1], k[2])) /\ UNCHANGED callerVars
    \/ loadPhaseRetryState(1) /\ UNCHANGED callerVars
    \/ (\E ok \in BOOLEAN : ClaudeExecute(1, ok)) /\ UNCHANGED callerVars
    \/ (\E ok \in BOOLEAN : Validate(1, ok)) /\ UNCHANGED callerVars
    \/ ResetRetryCount(1) /\ UNCHANGED callerVars
    \/ SaveStepsChunked(1) /\ UNCHANGED callerVars
    \/ Return(1) /\ UNCHANGED callerVars
    \/ Crash(1) /\ UNCHANGED callerVars

SpecCrash == InitFailRuns /\ [][NextCrash]_vars

(* ---- SpecConc: two tool invocations against one state directory -------- *)
InitConc ==
    /\ InitFs({})
    /\ InitProcs
    /\ config = NoPhaseConfig
    /\ template = << >>
    /\ branchSpec = TRUE
    /\ artifacts = {}
    /\ tasks = [Pending |-> 0, InProgress |-> 0, Completed |-> 0, Blocked |-> 0]
    /\ MaxRetries = [p \in Procs |-> MaxCeiling]

NextConc ==
    \E p \in Procs :
        \/ /\ attempt < MaxRuns
           /\ \E k \in Keys : ExecutePhase(p, k[1], k[2])
           /\ attempt' = attempt + 1
           /\ UNCHANGED <<reported, runVars, agentVars, cmdVars, valVars, regVars, withRetry>>
        \/ loadPhaseRetryState(p) /\ UNCHANGED callerVars
        \/ ClaudeExecute(p, FALSE) /\ UNCHANGED callerVars
        \/ SaveStepsChunked(p) /\ UNCHANGED callerVars
        \/ Return(p) /\ UNCHANGED callerVars

SpecConc == InitConc /\ [][NextConc]_vars

(* ---- SpecDisjoint: two invocations, a key each, saves one at a time ---- *)
\* process p is inside SaveRetryState: past its loadStore, before its return
Saving(p) == pc[p] \in {"save_open", "save_write", "save_rename"}

\* the key process p works on
KeyOf(p) == KeyOrder[p]

NextDisjoint ==
    \E p \in Procs :
        \/ /\ attempt < MaxRuns
           /\ ExecutePhase(p, KeyOf(p)[1], KeyOf(p)[2])
           /\ attempt' = attempt + 1
           /\ UNCHANGED <<reported, runVars, agentVars, cmdVars, valVars, regVars, withRetry>>
        \/ loadPhaseRetryState(p) /\ UNCHANGED callerVars
        \/ (\E ok \in BOOLEAN : ClaudeExecute(p, ok)) /\ UNCHANGED callerVars
        \/ (\E ok \in BOOLEAN : Validate(p, ok)) /\ UNCHANGED callerVars
        \/ ResetRetryCount(p) /\ UNCHANGED callerVars
        \/ /\ \A q \in Procs \ {p} : ~Saving(q)
           /\ SaveRetryState(p)
           /\ UNCHANGED callerVars
        \/ WriteFileOpen(p) /\ UNCHANGED callerVars
        \/ (\E n \in 1..(2 + EntryLen * Len(KeyOrder)) : WriteFileWrite(p, n)) /\ UNCHANGED callerVars
        \/ Rename(p) /\ UNCHANGED callerVars
        \/ Return(p) /\ UNCHANGED callerVars

SpecDisjoint == InitConc /\ [][NextDisjoint]_vars

(* ---- SpecApi: a client of package retry under one configured ceiling --- *)
InitApi == InitFailRuns

NextApi ==
    \/ (\E k \in Keys : ApiLoad(1, k[1], k[2])) /\ UNCHANGED callerVars
    \/ (\E now \in Clock : ApiIncrement(1, now)) /\ UNCHANGED callerVars
    \/ ApiReset(1) /\ UNCHANGED callerVars
    \/ ApiSave(1) /\ UNCHANGED callerVars
    \/ SaveSteps(1) /\ UNCHANGED callerVars

SpecApi == InitApi /\ [][NextApi]_vars

(* ---- SpecRun: one multi-phase run over the phase flags ----------------- *)
InitRun ==
    /\ InitFs(CorruptLedgers)
    /\ InitProcs
    /\ config \in PhaseConfigs
    /\ template = << >>
    /\ branchSpec \in BOOLEAN
    /\ artifacts \in (IF branchSpec THEN SUBSET ArtifactFiles ELSE {{}})
    /\ tasks = [Pending |-> 0, InProgress |-> 0, Completed |-> 0, Blocked |-> 0]
    /\ \E m \in Ceilings : MaxRetries = [p \in Procs |-> IF p = 1 THEN m ELSE 0]

NextRun ==
    \/ (\E hasArgs \in BOOLEAN, yes \in BOOLEAN : runPhaseWorkflow(hasArgs, yes))
    \/ executePhasesCall
    \/ loadPhaseRetryState(1) /\ UNCHANGED callerVars
    \/ (\E ok \in BOOLEAN : ClaudeExecute(1, ok)) /\ UNCHANGED callerVars
    \/ (\E ok \in BOOLEAN : Validate(1, ok)) /\ UNCHANGED callerVars
    \/ ResetRetryCount(1) /\ UNCHANGED callerVars
    \/ SaveSteps(1) /\ UNCHANGED callerVars
    \/ executePhasesReturn

SpecRun == InitRun /\ [][NextRun]_vars

(* ---- SpecSeq: single runs and resets under one configured ceiling ------ *)
NextSeq ==
    \/ (\E k \in Keys : ExecutePhase(1, k[1], k[2])) /\ UNCHANGED callerVars
    \/ (\E k \in Keys : ResetPhase(1, k[1], k[2])) /\ UNCHANGED callerVars
    \/ loadPhaseRetryState(1) /\ UNCHANGED callerVars
    \/ (\E ok \in BOOLEAN : ClaudeExecute(1, ok)) /\ UNCHANGED callerVars
    \/ (\E ok \in BOOLEAN : Validate(1, ok)) /\ UNCHANGED callerVars
    \/ ResetRetryCount(1) /\ UNCHANGED callerVars
    \/ SaveSteps(1) /\ UNCHANGED callerVars
    \/ Return(1) /\ UNCHANGED callerVars

SpecSeq == InitFailRuns /\ [][NextSeq]_vars

(* ---- SpecFault: the same, with writes of the temp file that may fail --- *)
NextFault ==
    \/ NextSeq
    \/ WriteFileFails(1) /\ UNCHANGED callerVars

SpecFault == InitFailRuns /\ [][NextFault]_vars

(* ---- SpecAgent: one runCommand call, its child and its context --------- *)
NextAgent ==
    \/ (\E t \in BOOLEAN, c \in BOOLEAN : runCommand(t, c)) /\ UNCHANGED <<fsVars, procVars, reported, attempt, runVars, cmdVars, valVars, regVars, withRetry>>
    \/ MainSteps /\ UNCHANGED <<fsVars, procVars, reported, attempt, runVars, cmdVars, valVars, regVars, withRetry>>
    \/ WaiterSteps /\ UNCHANGED <<fsVars, procVars, reported, attempt, runVars, cmdVars, valVars, regVars, withRetry>>
    \/ (\E e \in {DeadlineExceeded, Canceled} : CtxDone(e)) /\ UNCHANGED <<fsVars, procVars, reported, attempt, runVars, cmdVars, valVars, regVars, withRetry>>
    \/ (\E code \in ExitCodes : ChildExits(code)) /\ UNCHANGED <<fsVars, procVars, reported, attempt, runVars, cmdVars, valVars, regVars, withRetry>>
    \/ ChildKilled /\ UNCHANGED <<fsVars, procVars, reported, attempt, runVars, cmdVars, valVars, regVars, withRetry>>
    \/ DescendantExits /\ UNCHANGED <<fsVars, procVars, reported, attempt, runVars, cmdVars, valVars, regVars, withRetry>>

SpecAgent == InitConc /\ [][NextAgent]_vars

\* the Go scheduler runs every goroutine that can take a step, and a process
\* sent SIGKILL ends; nothing makes a child or its descendants end on their own
SpecAgentLive ==
    /\ SpecAgent
    /\ WF_vars(MainSteps /\ UNCHANGED <<fsVars, procVars, reported, attempt, runVars, cmdVars, valVars, regVars, withRetry>>)
    /\ WF_vars(WaiterSteps /\ UNCHANGED <<fsVars, procVars, reported, attempt, runVars, cmdVars, valVars, regVars, withRetry>>)
    /\ WF_vars(ChildKilled /\ UNCHANGED <<fsVars, procVars, reported, attempt, runVars, cmdVars, valVars, regVars, withRetry>>)

(* --------------------- package cliagent: BuildCommand -------------------- *)
\* A string is the sequence of its characters; the ten characters of the
\* placeholder are kept as one element, which is how strings.Contains and
\* strings.ReplaceAll treat them.
MaxTemplate == 3
MaxPrompt == 2
MaxQuoted == 4

promptPlaceholder == "{{PROMPT}}"
\* the backquote character, which a TLA+ string cannot hold
Backquote == "backquote"

shellMetacharacters ==
    << <<"|">>, <<"&", "&">>, <<"|", "|">>, <<";">>, <<">">>, <<"<">>,
       <<"$", "(">>, <<Backquote>>, <<"$", "(">> >>

Letters ==
    {"A", "B", "C", "D", "E", "F", "G", "H", "I", "J", "K", "L", "M",
     "N", "O", "P", "Q", "R", "S", "T", "U", "V", "W", "X", "Y", "Z",
     "a", "b", "c", "d", "e", "f", "g", "h", "i", "j", "k", "l", "m",
     "n", "o", "p", "q", "r", "s", "t", "u", "v", "w", "x", "y", "z"}
Digits == {"0", "1", "2", "3", "4", "5", "6", "7", "8", "9"}
Spaces == {" ", "\t", "\r", "\n"}

\* strings.Contains
Contains(s, sub) ==
    \E i \in 1..(Len(s) - Len(sub) + 1) : SubSeq(s, i, i + Len(sub) - 1) = sub

\* strings.Index for a one-character separator: 0-based, -1 when absent
Index(s, c) ==
    IF \E i \in 1..Len(s) : s[i] = c
    THEN (CHOOSE i \in 1..Len(s) : s[i] = c /\ \A j \in 1..(i - 1) : s[j] # c) - 1
    ELSE 0 - 1

\* strings.Fields: the maximal runs of non-space characters
RECURSIVE FieldsFrom(_, _, _)
FieldsFrom(s, i, word) ==
    IF i > Len(s) THEN (IF word = << >> THEN << >> ELSE <<word>>)
    ELSE IF s[i] \in Spaces
         THEN (IF word = << >> THEN << >> ELSE <<word>>) \o FieldsFrom(s, i + 1, << >>)
         ELSE FieldsFrom(s, i + 1, Append(word, s[i]))
Fields(s) == FieldsFrom(s, 1, << >>)

\* strings.ReplaceAll(s, old, new) for a one-element old
RECURSIVE ReplaceAll(_, _, _)
ReplaceAll(s, old, new) ==
    IF s = << >> THEN << >>
    ELSE (IF Head(s) = old THEN new ELSE <<Head(s)>>) \o ReplaceAll(Tail(s), old, new)

isValidEnvVarNameAnyPrefix(s) == TRUE

isValidEnvVarName(s) ==
    /\ Len(s) # 0
    /\ \A i \in 1..Len(s) :
          IF i = 1 THEN s[i] \in Letters \cup {"_"}
          ELSE s[i] \in Letters \cup Digits \cup {"_"}

needsShell(tmpl) ==
    \/ \E m \in 1..Len(shellMetacharacters) : Contains(tmpl, shellMetacharacters[m])
    \/ LET parts == Fields(tmpl) IN
          /\ Len(parts) > 0
          /\ LET first == parts[1]
                 idx == Index(first, "=")
             IN  idx > 0 /\ isValidEnvVarName(SubSeq(first, 1, idx))

NoAgent == [template |-> << >>, useShell |-> FALSE, ok |-> FALSE]
PlaceholderError == <<ErrLayer("errorString", "template must contain {{PROMPT}} placeholder")>>
SplitError == <<ErrLayer("errorString", "EOF found when expecting closing quote")>>
NoArgsError == <<ErrLayer("errorString", "template expansion produced no command")>>

\* escapeForShell and quoteForShlex: the prompt inside single quotes, every
\* single quote of it written as '\''
escapeForShell(s) == <<"'">> \o ReplaceAll(s, "'", <<"'", "\\", "'", "'">>) \o <<"'">>
quoteForShlex(s) ==
    IF s = << >> THEN <<"'", "'">>
    ELSE <<"'">> \o ReplaceAll(s, "'", <<"'", "\\", "'", "'">>) \o <<"'">>

\* shlex.Split (github.com/google/shlex): the words of s, or an error when s
\* ends inside a quote or after a backslash
RECURSIVE shlexLex(_, _, _, _)
shlexLex(s, i, st, value) ==
    IF i > Len(s) THEN
        (IF st \in {"start", "comment"} THEN [args |-> << >>, err |-> FALSE]
         ELSE IF st = "inWord" THEN [args |-> <<value>>, err |-> FALSE]
         ELSE [args |-> << >>, err |-> TRUE])
    ELSE LET c == s[i]
             go(st2, v2) == shlexLex(s, i + 1, st2, v2)
             emit(rest) == [args |-> <<value>> \o rest.args, err |-> rest.err]
         IN  CASE st = "start" ->
                    (IF c \in Spaces THEN go("start", << >>)
                     ELSE IF c = "\"" THEN go("quotingEscaping", << >>)
                     ELSE IF c = "'" THEN go("quoting", << >>)
                     ELSE IF c = "\\" THEN go("escaping", << >>)
                     ELSE IF c = "#" THEN go("comment", << >>)
                     ELSE go("inWord", <<c>>))
               [] st = "inWord" ->
                    (IF c \in Spaces THEN emit(go("start", << >>))
                     ELSE IF c = "\"" THEN go("quotingEscaping", value)
                     ELSE IF c = "'" THEN go("quoting", value)
                     ELSE IF c = "\\" THEN go("escaping", value)
                     ELSE go("inWord", Append(value, c)))
               [] st = "escaping" -> go("inWord", Append(value, c))
               [] st = "escapingQuoted" -> go("quotingEscaping", Append(value, c))
               [] st = "quotingEscaping" ->
                    (IF c = "\"" THEN go("inWord", value)
                     ELSE IF c = "\\" THEN go("escapingQuoted", value)
                     ELSE go("quotingEscaping", Append(value, c)))
               [] st = "quoting" ->
                    (IF c = "'" THEN go("inWord", value)
                     ELSE go("quoting", Append(value, c)))
               [] OTHER ->
                    (IF c = "\n" THEN go("start", << >>) ELSE go("comment", << >>))
shlexSplit(s) == shlexLex(s, 1, "start", << >>)

\* What `sh -c script` reads: words, and operator tokens for what the shell
\* acts on (control and redirection operators, a newline, and the $ and
\* backquote of an expansion, which stay active inside double quotes).
ShOperators == {"|", "&", ";", "<", ">", "(", ")", "\n"}
ShExpansions == {"$", Backquote}
Word(v) == [op |-> FALSE, v |-> v]
Operator(c) == [op |-> TRUE, v |-> <<c>>]

RECURSIVE shLex(_, _, _, _)
shLex(s, i, st, value) ==
    IF i > Len(s) THEN
        (IF st = "start" THEN [toks |-> << >>, err |-> FALSE]
         ELSE IF st = "inWord" THEN [toks |-> <<Word(value)>>, err |-> FALSE]
         ELSE [toks |-> << >>, err |-> TRUE])
    ELSE LET c == s[i]
             go(st2, v2) == shLex(s, i + 1, st2, v2)
             flush == IF st = "start" THEN << >> ELSE <<Word(value)>>
             put(pre, rest) == [toks |-> pre \o rest.toks, err |-> rest.err]
         IN  CASE st \in {"start", "inWord"} ->
                    (IF c \in ShOperators
                        THEN put(flush \o <<Operator(c)>>, go("start", << >>))
                     ELSE IF c \in Spaces THEN put(flush, go("start", << >>))
                     ELSE IF c \in ShExpansions
                        THEN put(flush \o <<Operator(c)>>, go("start", << >>))
                     ELSE IF c = "\"" THEN go("double", value)
                     ELSE IF c = "'" THEN go("single", value)
                     ELSE IF c = "\\" THEN go("escape", value)
                     ELSE go("inWord", Append(value, c)))
               [] st = "escape" -> go("inWord", Append(value, c))
               [] st = "single" ->
                    (IF c = "'" THEN go("inWord", value)
                     ELSE go("single", Append(value, c)))
               [] st = "double" ->
                    (IF c = "\"" THEN go("inWord", value)
                     ELSE IF c \in ShExpansions
                        THEN put(<<Word(value), Operator(c)>>, go("double", << >>))
                     ELSE IF c = "\\" THEN go("dqescape", value)
                     ELSE go("double", Append(value, c)))
               [] OTHER ->
                    (IF c \in {"$", Backquote, "\"", "\\", "\n"}
                        THEN go("double", Append(value, c))
                     ELSE go("double", Append(Append(value, "\\"), c)))
shParse(s) == shLex(s, 1, "start", << >>)

sh == <<"s", "h">>
dashC == <<"-", "c">>

\* NewCustomAgent: the template must hold the placeholder; useShell is
\* computed here and nowhere else
NewCustomAgent ==
    /\ agent = NoAgent /\ agentErr = nil
    /\ IF ~Contains(template, <<promptPlaceholder>>)
       THEN /\ agentErr' = PlaceholderError
            /\ agent' = agent
       ELSE /\ agent' = [template |-> template, useShell |-> needsShell(template), ok |-> TRUE]
            /\ agentErr' = nil
    /\ UNCHANGED <<template, prompt, cmd, cmdErr>>

buildShellCommand(a, p) ==
    [args |-> <<sh, dashC, ReplaceAll(a.template, promptPlaceholder, escapeForShell(p))>>,
     err |-> nil]

expandTemplate(a, p) ==
    LET split == shlexSplit(ReplaceAll(a.template, promptPlaceholder, quoteForShlex(p)))
    IN  IF split.err THEN [args |-> << >>, err |-> SplitError]
        ELSE [args |-> split.args, err |-> nil]

buildDirectCommand(a, p) ==
    LET e == expandTemplate(a, p)
    IN  IF e.err # nil
        THEN [args |-> << >>, err |-> Wrap("expanding template", e.err)]
        ELSE IF Len(e.args) = 0 THEN [args |-> << >>, err |-> NoArgsError]
        ELSE e

\* BuildCommand reads the useShell the constructor stored
BuildCommand(p) ==
    /\ agent.ok /\ cmd = << >> /\ cmdErr = nil
    /\ LET built == IF agent.useShell THEN buildShellCommand(agent, p)
                    ELSE buildDirectCommand(agent, p)
       IN  /\ cmd' = built.args
           /\ cmdErr' = built.err
    /\ prompt' = p
    /\ UNCHANGED <<template, agent, agentErr>>

RECURSIVE StringsOver(_, _)
StringsOver(alphabet, n) ==
    IF n = 0 THEN {<< >>}
    ELSE LET shorter == StringsOver(alphabet, n - 1)
         IN  shorter \cup {Append(s, c) : s \in shorter, c \in alphabet}

\* templates that exercise needsShell: every metacharacter, and the characters
\* an environment-variable prefix is made of
ShellAlphabet ==
    {"A", "1", "_", "=", " ", "|", "&", ";", ">", "<", "$", "(", Backquote, promptPlaceholder}
\* templates and prompts that exercise the quoting
QuoteAlphabet == {"t", " ", "'", "\"", "|", promptPlaceholder}
PromptAlphabet == {"a", " ", "'", "\"", "|", "\n", "$"}
Prompts == StringsOver(PromptAlphabet, MaxPrompt)

InitCmd(templates) ==
    /\ InitFs({})
    /\ InitProcs
    /\ config = NoPhaseConfig
    /\ branchSpec = TRUE
    /\ artifacts = {}
    /\ tasks = [Pending |-> 0, InProgress |-> 0, Completed |-> 0, Blocked |-> 0]
    /\ MaxRetries = [p \in Procs |-> MaxCeiling]
    /\ template \in templates

othersUnchanged == UNCHANGED <<fsVars, procVars, reported, attempt, runVars, agentVars, valVars,
                                regVars, withRetry>>

\* SpecShell: agents are constructed from every short template and build a
\* command for a plain prompt
InitShell == InitCmd(StringsOver(ShellAlphabet, MaxTemplate))
NextShell ==
    \/ NewCustomAgent /\ othersUnchanged
    \/ (\E p \in {<< >>, <<"a">>} : BuildCommand(p)) /\ othersUnchanged
SpecShell == InitShell /\ [][NextShell]_vars

\* SpecBuild: agents constructed from templates with quotes build a command
\* for every short prompt
InitBuild == InitCmd(StringsOver(QuoteAlphabet, MaxQuoted))
NextBuild ==
    \/ NewCustomAgent /\ othersUnchanged
    \/ (\E p \in Prompts : BuildCommand(p)) /\ othersUnchanged
SpecBuild == InitBuild /\ [][NextBuild]_vars

(* ------------------------- package validation --------------------------- *)
MaxTasks == 10
\* largest attempt limit handed to ExecuteWithRetry
MaxAttempts == 2

NoTasks == [Pending |-> 0, InProgress |-> 0, Completed |-> 0, Blocked |-> 0]
NoValidation == [op |-> "", arg |-> "", err |-> nil, code |-> 0 - 1, retry |-> FALSE]

\* the task lists of at most MaxTasks tasks
TaskLists ==
    {t \in [Pending : 0..MaxTasks, InProgress : 0..MaxTasks,
            Completed : 0..MaxTasks, Blocked : 0..MaxTasks] :
        t.Pending + t.InProgress + t.Completed + t.Blocked <= MaxTasks}

\* fmt.Errorf("<file> not found in %s - run 'autospec <phase>' to create it"):
\* Phase is the phase the message tells the user to run
NotFound(file, msg, phase) == <<[ErrLayer("errorString", msg) EXCEPT !.Phase = phase]>>

\* faulty variant: once a validation has failed, every later look finds nothing
StatAfterFailure(file, statFails) ==
    IF validated.err # nil THEN NotExistError
    ELSE IF statFails THEN PermissionError
    ELSE IF file \in artifacts THEN nil
    ELSE NotExistError

\* os.Stat on <specDir>/<file>: the file is there, is not there, or cannot be
\* looked at
Stat(file, statFails) ==
    IF statFails THEN PermissionError
    ELSE IF file \in artifacts THEN nil
    ELSE NotExistError

IsNotExist(err) == err = NotExistError

ValidateSpecFile(statFails) ==
    LET err == Stat(SpecFile, statFails)
    IN  IF IsNotExist(err)
        THEN NotFound(SpecFile, "spec.md not found - run 'autospec specify <description>' to create it",
                      PhaseSpecify)
        ELSE IF err # nil THEN Wrap("error checking spec.md", err)
        ELSE nil

\* faulty variant: the hint of a missing plan.md names the specify phase
ValidatePlanFileNamesSpecify(statFails) ==
    LET err == Stat(PlanFile, statFails)
    IN  IF IsNotExist(err)
        THEN NotFound(PlanFile, "plan.md not found - run 'autospec specify' to create it",
                      PhaseSpecify)
        ELSE IF err # nil THEN Wrap("error checking plan.md", err)
        ELSE nil

ValidatePlanFile(statFails) ==
    LET err == Stat(PlanFile, statFails)
    IN  IF IsNotExist(err)
        THEN NotFound(PlanFile, "plan.md not found - run 'autospec plan' to create it",
                      PhasePlan)
        ELSE IF err # nil THEN Wrap("error checking plan.md", err)
        ELSE nil

ValidateTasksFile(statFails) ==
    LET err == Stat(TasksFile, statFails)
    IN  IF IsNotExist(err)
        THEN NotFound(TasksFile, "tasks.md not found - run 'autospec tasks' to create it",
                      PhaseTasks)
        ELSE IF err # nil THEN Wrap("error checking tasks.md", err)
        ELSE nil

\* validation.GetTaskStats: the counts of the tasks of tasks.md by status
GetTaskStats ==
    IF TasksFile \notin artifacts THEN [stats |-> NoTasks, total |-> 0, err |-> NotExistError]
    ELSE [stats |-> tasks,
          total |-> tasks.Pending + tasks.InProgress + tasks.Completed + tasks.Blocked,
          err |-> nil]

\* TaskStats.IsComplete: no task is left in a status other than completed
IsComplete(stats) == stats.Pending + stats.InProgress + stats.Blocked = 0

\* fmt.Errorf(format, a...): the format and the numbers it prints, in order
Errorf(format, a) == <<[type |-> "errorString", msg |-> format, a |-> a]>>
IncompleteFormat == "implementation incomplete: %d tasks remain (%d pending, %d in-progress)"
IncompleteBlockedFormat ==
    "implementation incomplete: %d tasks remain (%d pending, %d in-progress, %d blocked)"

\* faulty variant: blocked tasks are left out of the remaining count
ValidateTasksCompleteDropsBlocked ==
    LET got == GetTaskStats
        stats == got.stats
    IN  IF got.err # nil THEN got.err
        ELSE IF ~IsComplete(stats)
        THEN LET remaining == stats.Pending + stats.InProgress
             IN  IF stats.Blocked > 0
                 THEN Errorf(IncompleteBlockedFormat,
                             <<remaining, stats.Pending, stats.InProgress, stats.Blocked>>)
                 ELSE Errorf(IncompleteFormat, <<remaining, stats.Pending, stats.InProgress>>)
        ELSE nil

ValidateTasksComplete ==
    LET got == GetTaskStats
        stats == got.stats
    IN  IF got.err # nil THEN got.err
        ELSE IF ~IsComplete(stats)
        THEN LET remaining == stats.Pending + stats.InProgress + stats.Blocked
             IN  IF stats.Blocked > 0
                 THEN Errorf(IncompleteBlockedFormat,
                             <<remaining, stats.Pending, stats.InProgress, stats.Blocked>>)
                 ELSE Errorf(IncompleteFormat, <<remaining, stats.Pending, stats.InProgress>>)
        ELSE nil

\* validation.Result
MissingDependencies == "missing dependencies"
InvalidArguments == "invalid arguments"
ResultErrors == {"", MissingDependencies, InvalidArguments, "validation failed"}
Results == [Success : BOOLEAN, Error : ResultErrors]

ShouldRetry(r, canRetry) == ~r.Success /\ canRetry

\* faulty variant: the error text is looked at before Success
ResultExitCodeErrorFirst(r) ==
    IF r.Error = MissingDependencies THEN 4
    ELSE IF r.Error = InvalidArguments THEN 3
    ELSE IF r.Success THEN 0
    ELSE 1

ResultExitCode(r) ==
    IF r.Success THEN 0
    ELSE IF r.Error = MissingDependencies THEN 4
    ELSE IF r.Error = InvalidArguments THEN 3
    ELSE 1

\* (*RetryExhaustedError).ExitCode
RetryExhaustedExitCode(e) == 2

\* the exhaustion errors Increment can return
ExhaustedErrors ==
    {RetryExhaustedError([SpecName |-> k[1], Phase |-> k[2], Count |-> m, MaxRetries |-> m]) :
        k \in Keys, m \in Ceilings}

Call(op, arg, err, code, retry) ==
    /\ validated' = [op |-> op, arg |-> arg, err |-> err, code |-> code, retry |-> retry]
    /\ UNCHANGED <<fsVars, procVars, reported, attempt, runVars, agentVars, cmdVars, tasks,
                   regVars, withRetry>>

ValidateSpec(statFails) == Call("ValidateSpec", statFails, ValidateSpecFile(statFails), 0 - 1, FALSE)
ValidatePlan(statFails) == Call("ValidatePlan", statFails, ValidatePlanFile(statFails), 0 - 1, FALSE)
ValidateTasks(statFails) == Call("ValidateTasks", statFails, ValidateTasksFile(statFails), 0 - 1, FALSE)
ValidateTasksCompleteCall == Call("ValidateTasksComplete", FALSE, ValidateTasksComplete, 0 - 1, FALSE)
ExitCodeOfResult(r) == Call("Result.ExitCode", r, nil, ResultExitCode(r), FALSE)
ShouldRetryCall(r, canRetry) ==
    Call("Result.ShouldRetry", [r |-> r, canRetry |-> canRetry], nil, 0 - 1, ShouldRetry(r, canRetry))
ExitCodeOfExhausted(e) == Call("RetryExhaustedError.ExitCode", e, nil, RetryExhaustedExitCode(e), FALSE)

InitValidation(taskLists) ==
    /\ InitFs({})
    /\ InitProcs
    /\ config = NoPhaseConfig
    /\ template = << >>
    /\ branchSpec = TRUE
    /\ MaxRetries = [p \in Procs |-> MaxCeiling]
    /\ artifacts \in SUBSET ArtifactFiles
    /\ tasks \in (IF TasksFile \in artifacts THEN taskLists ELSE {NoTasks})

\* SpecValidate: calls into package validation over every spec directory
InitValidate == InitValidation({NoTasks})

NextValidate ==
    \/ \E statFails \in BOOLEAN : ValidateSpec(statFails)
    \/ \E statFails \in BOOLEAN : ValidatePlan(statFails)
    \/ \E statFails \in BOOLEAN : ValidateTasks(statFails)
    \/ ValidateTasksCompleteCall
    \/ \E r \in Results : ExitCodeOfResult(r)
    \/ \E r \in Results, canRetry \in BOOLEAN : ShouldRetryCall(r, canRetry)
    \/ \E e \in ExhaustedErrors : ExitCodeOfExhausted(e)

SpecValidate == InitValidate /\ [][NextValidate]_vars

\* SpecTasks: the validations of tasks.md over every task list of at most
\* MaxTasks tasks
InitTasks == InitValidation(TaskLists)
NextTasks ==
    \/ \E statFails \in BOOLEAN : ValidateTasks(statFails)
    \/ ValidateTasksCompleteCall
SpecTasks == InitTasks /\ [][NextTasks]_vars

(* -------------------- package cliagent: the Registry -------------------- *)
\* the names agents go by, listed in the byte order sort.Strings compares by
AgentNames == <<"claude", "gemini", "opencode">>

NameSet == {AgentNames[i] : i \in 1..Len(AgentNames)}

\* the agents a caller may register: two distinct agents answer to each name
Agents == [name : NameSet, id : {1, 2}]

\* agent.Name()
Name(a) == a.name

\* a < b on strings
StringLess(a, b) ==
    \E i, j \in 1..Len(AgentNames) : AgentNames[i] = a /\ AgentNames[j] = b /\ i < j

RECURSIVE insertSorted(_, _)
insertSorted(sorted, s) ==
    IF sorted = << >> THEN <<s>>
    ELSE IF StringLess(s, Head(sorted)) THEN <<s>> \o sorted
    ELSE <<Head(sorted)>> \o insertSorted(Tail(sorted), s)

\* List without its sort.Strings call: the names in map iteration order
sortStringsKeepsOrder(names) == names

\* sort.Strings(names)
RECURSIVE sortStrings(_)
sortStrings(names) ==
    IF names = << >> THEN << >>
    ELSE insertSorted(sortStrings(Tail(names)), Head(names))

\* NewRegistry(): an empty map behind an unlocked mutex
NewRegistry ==
    /\ agents = << >>
    /\ mu = [w |-> 0, r |-> {}]

\* r.agents[name]: the zero value when the key is missing
MapIndex(m, name) == IF name \in DOMAIN m THEN m[name] ELSE NilAgent

\* r.agents[name] = agent
MapAssign(m, name, a) ==
    [n \in (DOMAIN m) \cup {name} |-> IF n = name THEN a ELSE m[n]]

Enter(g, op, name, a, pos) ==
    /\ reg[g].pc \in {"idle", "done"}
    /\ reg' = [reg EXCEPT ![g] = [NoCall EXCEPT !.pc = pos, !.op = op, !.name = name, !.agent = a]]
    /\ UNCHANGED <<agents, mu>>

\* Registry.Register(agent), entry
Register(g, a) == Enter(g, "Register", Name(a), a, "lock")

\* Registry.Get(name), entry
Get(g, name) == Enter(g, "Get", name, NilAgent, "rlock")

\* MustGet(name), entry: it calls Get
MustGet(g, name) == Enter(g, "MustGet", name, NilAgent, "rlock")

\* Registry.List(), entry
List(g) == Enter(g, "List", "", NilAgent, "rlock")

\* r.mu.Lock(): granted when nobody holds the mutex, for reading or writing
Lock(g) ==
    /\ reg[g].pc = "lock"
    /\ mu.w = 0 /\ mu.r = {}
    /\ mu' = [mu EXCEPT !.w = g]
    /\ reg' = [reg EXCEPT ![g].pc = "store"]
    /\ UNCHANGED agents

\* r.agents[agent.Name()] = agent
RegisterStore(g) ==
    /\ reg[g].pc = "store"
    /\ agents' = MapAssign(agents, Name(reg[g].agent), reg[g].agent)
    /\ reg' = [reg EXCEPT ![g].pc = "unlock"]
    /\ UNCHANGED mu

\* the deferred r.mu.Unlock(); Register returns
Unlock(g) ==
    /\ reg[g].pc = "unlock"
    /\ mu' = [mu EXCEPT !.w = 0]
    /\ reg' = [reg EXCEPT ![g].pc = "done"]
    /\ UNCHANGED agents

\* r.mu.RLock(): granted when no writer holds the mutex
RLock(g) ==
    /\ reg[g].pc = "rlock"
    /\ mu.w = 0
    /\ mu' = [mu EXCEPT !.r = @ \cup {g}]
    /\ reg' = [reg EXCEPT ![g].pc = IF reg[g].op = "List" THEN "range" ELSE "index"]
    /\ UNCHANGED agents

\* Get: return r.agents[name]
GetIndex(g) ==
    /\ reg[g].pc = "index"
    /\ reg' = [reg EXCEPT ![g].ret = MapIndex(agents, reg[g].name), ![g].pc = "runlock"]
    /\ UNCHANGED <<agents, mu>>

\* List: for name := range r.agents { names = append(names, name) }; the map
\* hands its keys out in an order of its own choosing
ListRange(g) ==
    /\ reg[g].pc = "range"
    /\ \E name \in DOMAIN agents :
         /\ \A i \in 1..Len(reg[g].names) : reg[g].names[i] # name
         /\ reg' = [reg EXCEPT ![g].names = Append(@, name)]
    /\ UNCHANGED <<agents, mu>>

\* List: the range is over; sort.Strings(names)
ListSort(g) ==
    /\ reg[g].pc = "range"
    /\ Len(reg[g].names) = Cardinality(DOMAIN agents)
    /\ reg' = [reg EXCEPT ![g].names = sortStrings(@), ![g].pc = "runlock"]
    /\ UNCHANGED <<agents, mu>>

\* the deferred r.mu.RUnlock(); Get and List return, MustGet panics on nil
RUnlock(g) ==
    /\ reg[g].pc = "runlock"
    /\ mu' = [mu EXCEPT !.r = @ \ {g}]
    /\ IF reg[g].op = "MustGet" /\ reg[g].ret = NilAgent
       THEN reg' = [reg EXCEPT ![g].pc = "panicked", ![g].panicked = TRUE]
       ELSE reg' = [reg EXCEPT ![g].pc = "done"]
    /\ UNCHANGED agents

regOthersUnchanged ==
    UNCHANGED <<fsVars, procVars, reported, attempt, runVars, agentVars, cmdVars, valVars, withRetry>>

\* SpecRegistry: goroutines register, look up and list agents of one registry
InitRegistry ==
    /\ InitConc
    /\ NewRegistry

NextRegistry ==
    \E g \in Goroutines :
        \/ (\E a \in Agents : Register(g, a)) /\ regOthersUnchanged
        \/ (\E name \in NameSet : Get(g, name)) /\ regOthersUnchanged
        \/ (\E name \in NameSet : MustGet(g, name)) /\ regOthersUnchanged
        \/ List(g) /\ regOthersUnchanged
        \/ Lock(g) /\ regOthersUnchanged
        \/ RegisterStore(g) /\ regOthersUnchanged
        \/ Unlock(g) /\ regOthersUnchanged
        \/ RLock(g) /\ regOthersUnchanged
        \/ GetIndex(g) /\ regOthersUnchanged
        \/ ListRange(g) /\ regOthersUnchanged
        \/ ListSort(g) /\ regOthersUnchanged
        \/ RUnlock(g) /\ regOthersUnchanged

SpecRegistry == InitRegistry /\ [][NextRegistry]_vars

(* ------------------- Executor.ExecuteWithRetry -------------------------- *)
\* the errors e.Claude.Execute may return
ExecuteErrors == {AgentError, StartError}

\* errors.Unwrap(err) of an error built by fmt.Errorf("...: %w", cause)
Unwrap(err) == IF err = nil THEN nil ELSE Tail(err)

\* ExecuteWithRetry, entry: var lastErr error; attempt := 1
ExecuteWithRetry(maxAttempts) ==
    /\ withRetry.pc \in {"idle", "done"}
    /\ withRetry' = [NoLoop EXCEPT !.pc = "loop", !.maxAttempts = maxAttempts, !.attempt = 1]

\* for ...; attempt <= maxAttempts; ... and, past the loop,
\* return fmt.Errorf("all %d attempts failed: %w", maxAttempts, lastErr)
LoopTest ==
    /\ withRetry.pc = "loop"
    /\ IF withRetry.attempt <= withRetry.maxAttempts
       THEN withRetry' = [withRetry EXCEPT !.pc = "exec"]
       ELSE withRetry' = [withRetry EXCEPT !.pc = "done",
                                           !.ret = Wrap("all attempts failed", withRetry.lastErr)]

\* err := e.Claude.Execute(command); return nil on success, else lastErr = err; attempt++
LoopExecute(err) ==
    /\ withRetry.pc = "exec"
    /\ IF err = nil
       THEN withRetry' = [withRetry EXCEPT !.pc = "done", !.ret = nil, !.succeeded = TRUE,
                                           !.calls = @ + 1]
       ELSE withRetry' = [withRetry EXCEPT !.pc = "loop", !.lastErr = err, !.attempt = @ + 1,
                                           !.calls = @ + 1]

loopOthersUnchanged ==
    UNCHANGED <<fsVars, procVars, reported, attempt, runVars, agentVars, cmdVars, valVars, regVars>>

\* SpecWithRetry: ExecuteWithRetry calls over every ledger and attempt limit
InitWithRetry == InitFailRuns

NextWithRetry ==
    \/ (\E maxAttempts \in 0..MaxAttempts : ExecuteWithRetry(maxAttempts)) /\ loopOthersUnchanged
    \/ LoopTest /\ loopOthersUnchanged
    \/ (\E err \in ExecuteErrors \cup {nil} : LoopExecute(err)) /\ loopOthersUnchanged

SpecWithRetry == InitWithRetry /\ [][NextWithRetry]_vars

\* the loop cannot be held up: Execute returns and the loop goes on
SpecWithRetryLive == SpecWithRetry /\ WF_vars(NextWithRetry)

(* ------------------------- what the ledger holds ------------------------ *)
\* the record a LoadRetryState of key k would find now, if any
HasRecord(k) == loadStore.err = nil /\ k \in DOMAIN loadStore.store
PersistedCount(k) == IF HasRecord(k) THEN loadStore.store[k].Count ELSE 0

\* the key of the call process p is in
CallKey(p) == Key(args[p].spec, args[p].phase)

\* an ExecutePhase call of process p has built its result and is about to return
Returning(p) == pc[p] = "done" /\ args[p].op = "ExecutePhase"

\* the cause handleExecutionError / handleValidationError was handed
OriginalErr(p) ==
    IF ErrPrefix(result[p].Error) = "command execution failed" THEN AgentError
    ELSE IF ErrPrefix(result[p].Error) = "validation failed" THEN ValidationError
    ELSE nil

(* ------------------------------- claims --------------------------------- *)

\* C1: ceiling invariant. A record that starts at count 0 under ceiling N never
\* has its count above N whatever sequence of Increment calls is made on it; an
\* Increment made when count >= N returns the exhaustion error (carrying the
\* count and the ceiling) and leaves the record unchanged, any other Increment
\* returns nil and raises the count by one.
C1_CeilingInvariant ==
    /\ [](retryState[1].Count <= MaxRetries[1])
    /\ [][(\E now \in Clock : ApiIncrement(1, now)) =>
            IF retryState[1].Count >= retryState[1].MaxRetries
            THEN /\ ErrorsAs(incrementErr'[1], "RetryExhaustedError")
                 /\ incrementErr'[1][1].Count = retryState[1].Count
                 /\ incrementErr'[1][1].MaxRetries = retryState[1].MaxRetries
                 /\ retryState'[1] = retryState[1]
            ELSE /\ incrementErr'[1] = nil
                 /\ retryState'[1].Count = retryState[1].Count + 1]_vars

\* C1 witness: after real increments the record sits at its ceiling and the
\* last Increment was refused
C1_Witness ==
    /\ pc[1] = "api"
    /\ MaxRetries[1] >= 2
    /\ retryState[1].Count = MaxRetries[1]
    /\ ErrorsAs(incrementErr[1], "RetryExhaustedError")

\* C2: with a fixed ceiling N and a fresh ledger, after the k-th consecutive
\* failing ExecutePhase run the persisted count is min(k, N): 1, 2, ..., N for
\* the first N runs, and every run after the N-th reports exhaustion and
\* leaves the count at N.
C2_ConsecutiveFailures ==
    /\ pc[1] \in {"idle", "done"} => PersistedCount(ScenarioKey) = Min(attempt, MaxRetries[1])
    /\ pc[1] = "done" =>
          /\ ~result[1].Success
          /\ result[1].Exhausted = (attempt > MaxRetries[1])
          /\ result[1].RetryCount = Min(attempt, MaxRetries[1])

\* C2 witness: the run after the N-th failure, N >= 2, ended exhausted at count N
C2_Witness ==
    /\ pc[1] = "done"
    /\ MaxRetries[1] >= 2
    /\ attempt = MaxRetries[1] + 1
    /\ result[1].Exhausted
    /\ PersistedCount(ScenarioKey) = MaxRetries[1]

C4_RetryableFailure ==
    (Returning(1) /\ result[1].Error # nil /\ phaseInfo[1] < MaxRetries[1]) =>
        /\ HasRecord(CallKey(1))
        /\ PersistedCount(CallKey(1)) = phaseInfo[1] + 1
        /\ ~result[1].Success
        /\ ~result[1].Exhausted
        /\ result[1].RetryCount = PersistedCount(CallKey(1))
        /\ retErr[1] = result[1].Error
        /\ OriginalErr(1) # nil
        /\ ErrCause(retErr[1]) = OriginalErr(1)

\* C4 witness: a validation failure on a record already at count 1 with budget left
C4_Witness ==
    /\ Returning(1)
    /\ phaseInfo[1] = 1
    /\ phaseInfo[1] < MaxRetries[1]
    /\ ErrPrefix(result[1].Error) = "validation failed"
    /\ result[1].RetryCount = 2

\* C5 as claimed: a failed attempt of either kind on which Increment reports
\* exhaustion returns Exhausted=true, leaves the persisted count unchanged and
\* returns an error that wraps "retry limit exhausted" with the original cause.
C5_ExhaustedFailure ==
    (Returning(1) /\ incrementErr[1] # nil) =>
        /\ result[1].Exhausted
        /\ PersistedCount(CallKey(1)) = phaseInfo[1]
        /\ \E i \in 1..Len(retErr[1]) : retErr[1][i].msg = "retry limit exhausted"
        /\ ErrCause(retErr[1]) = OriginalErr(1)

\* C6: an attempt whose agent invocation and validation both succeed leaves the
\* key's persisted record at count 0 whatever it was, and returns Success=true,
\* RetryCount=0 and a nil error.
C6_SuccessResets ==
    (Returning(1) /\ result[1].Error = nil) =>
        /\ HasRecord(CallKey(1))
        /\ PersistedCount(CallKey(1)) = 0
        /\ result[1].Success
        /\ ~result[1].Exhausted
        /\ result[1].RetryCount = 0
        /\ retErr[1] = nil

\* C6 witness: success on a key whose record was loaded with a non-zero count
C6_Witness ==
    /\ Returning(1)
    /\ result[1].Success
    /\ phaseInfo[1] >= 1
    /\ PersistedCount(CallKey(1)) = 0

\* C7: with a single writer that may die at any step of Save, every step leaves
\* the canonical ledger file as it was, or installs the complete new
\* serialisation by the rename; it is never truncated, partial or removed.
C7_AtomicWrite ==
    [][\/ /\ Exists(RetryPath)' = Exists(RetryPath)
          /\ Content(RetryPath)' = Content(RetryPath)
       \/ /\ pc[1] = "save_rename"
          /\ Exists(RetryPath)'
          /\ Content(RetryPath)' = data[1]
          /\ WellFormed(data[1])]_vars

\* C7 witness: the writer died in the middle of writing the temp file (it is
\* left behind cut short) while the canonical ledger holds a complete document
C7_Witness ==
    /\ pc[1] = "idle"
    /\ Exists(TmpPath)
    /\ Len(Content(TmpPath)) >= 1
    /\ ~WellFormed(Content(TmpPath))
    /\ Exists(RetryPath)
    /\ WellFormed(Content(RetryPath))
    /\ PersistedCount(ScenarioKey) >= 1

\* C8 as claimed: under any interleaving of Saves by separate invocations, every
\* read of the canonical ledger sees no file or one complete serialisation.
C8_ReaderSeesWholeFile ==
    \A p \in Procs : storeErr[p] # "unmarshal"

\* C9 as claimed: when the budget is exhausted the error ExecutePhase returns is
\* a retry-exhausted error carrying spec, phase, count and ceiling.
C9_ExhaustedErrorType ==
    (Returning(1) /\ result[1].Exhausted) =>
        \E i \in 1..Len(retErr[1]) :
            /\ retErr[1][i].type = "RetryExhaustedError"
            /\ retErr[1][i].SpecName = args[1].spec
            /\ retErr[1][i].Phase = args[1].phase
            /\ retErr[1][i].Count = phaseInfo[1]
            /\ retErr[1][i].MaxRetries = MaxRetries[1]

\* C10: a load that finds an unparsable ledger returns a fresh record (count 0,
\* the supplied ceiling) and no error, and leaves the file as it was.
C10_CorruptLedgerLoad ==
    [][(/\ pc[1] = "load"
        /\ pc'[1] # "load"
        /\ Exists(RetryPath)
        /\ ~WellFormed(Content(RetryPath))) =>
            /\ pc'[1] = "exec"
            /\ retErr'[1] = nil
            /\ retryState'[1] = NewRetryState(args[1].spec, args[1].phase, MaxRetries[1])
            /\ storeErr'[1] = "unmarshal"
            /\ UNCHANGED fsVars]_vars

\* C10 witness: a run under a non-zero ceiling has loaded from a corrupt ledger
C10_Witness ==
    /\ pc[1] = "exec"
    /\ storeErr[1] = "unmarshal"
    /\ MaxRetries[1] >= 1
    /\ ~WellFormed(Content(RetryPath))
    /\ Exists(RetryPath)

\* C11 as claimed: when a Save replaces a ledger that does not parse, the
\* content it replaces is still on disk afterwards under another name of the
\* state directory.
C11_CorruptLedgerBackedUp ==
    [][(/\ pc[1] = "save_rename"
        /\ pc'[1] = "done"
        /\ Exists(RetryPath)
        /\ ~WellFormed(Content(RetryPath))) =>
            \E n \in Names \ {RetryPath} :
                /\ Exists(n)'
                /\ Content(n)' = Content(RetryPath)]_vars

\* the record Save wrote for the call that is returning: one of the callers of
\* SaveRetryState has got its answer
Saved(p) == pc[p] = "done" /\ path[p] # ""

\* C12 as claimed: right after Save(r), a Load of r's key returns a record equal
\* to r in count, timestamp and ceiling, whatever ceiling the Load is given.
C12_RoundTrip ==
    Saved(1) =>
        \A c \in Ceilings \cup {ResetMaxRetries} :
            LET l == LoadRetryState(retryState[1].SpecName, retryState[1].Phase, c).state
            IN /\ l.Count = retryState[1].Count
               /\ l.LastAttempt = retryState[1].LastAttempt
               /\ l.MaxRetries = retryState[1].MaxRetries

\* C12 amended: right after Save(r), Load(key of r, c) returns r's spec, phase,
\* count and timestamp with ceiling c; it equals r when c is r's ceiling.
C12_RoundTripUnderCeiling ==
    Saved(1) =>
        \A c \in Ceilings \cup {ResetMaxRetries} :
            LET l == LoadRetryState(retryState[1].SpecName, retryState[1].Phase, c)
            IN /\ l.err = nil
               /\ l.state = [retryState[1] EXCEPT !.MaxRetries = c]
               /\ (c = retryState[1].MaxRetries => l.state = retryState[1])

\* C12 witness: a record with a non-zero count and a set timestamp was saved
C12_Witness ==
    /\ Saved(1)
    /\ path[1] = "retry"
    /\ retryState[1].Count >= 1
    /\ retryState[1].LastAttempt >= 1
    /\ LoadRetryState(retryState[1].SpecName, retryState[1].Phase,
                      retryState[1].MaxRetries).state = retryState[1]

\* C13: the record a Load under ceiling c returns has ceiling c; for a key the
\* ledger holds it has the persisted count and timestamp, for any other key
\* (or an unreadable ledger) count 0 and the zero timestamp.
C13_LoadOverridesCeiling ==
    [][(pc[1] = "load" /\ pc'[1] = "exec") =>
        LET k == CallKey(1)
            r == retryState'[1]
        IN /\ r.MaxRetries = MaxRetries[1]
           /\ r.SpecName = args[1].spec
           /\ r.Phase = args[1].phase
           /\ IF HasRecord(k)
              THEN /\ r.Count = loadStore.store[k].Count
                   /\ r.LastAttempt = loadStore.store[k].LastAttempt
              ELSE /\ r.Count = 0
                   /\ r.LastAttempt = 0]_vars

\* C13 witness: a record persisted under another ceiling, with a non-zero
\* count, has been loaded under the run's ceiling
C13_Witness ==
    /\ pc[1] = "exec"
    /\ HasRecord(CallKey(1))
    /\ loadStore.store[CallKey(1)].MaxRetries # MaxRetries[1]
    /\ retryState[1].MaxRetries = MaxRetries[1]
    /\ retryState[1].Count >= 1

\* C14: the persisted ledger changes only by the rename of a Save, and that
\* rename changes only the entry of the key being saved, which becomes the
\* record saved; every other key's record is the same after it as before.
C14_SaveMerges ==
    [][(\/ Exists(RetryPath)' # Exists(RetryPath)
        \/ Content(RetryPath)' # Content(RetryPath)) =>
            LET before == loadStore
                after == loadStore'
                saved == Key(retryState[1].SpecName, retryState[1].Phase)
            IN /\ pc[1] = "save_rename"
               /\ after.err = nil
               /\ saved \in DOMAIN after.store
               /\ after.store[saved] = retryState[1]
               /\ \A k \in DOMAIN before.store \cup DOMAIN after.store :
                     k # saved =>
                        /\ k \in DOMAIN before.store
                        /\ k \in DOMAIN after.store
                        /\ after.store[k] = before.store[k]]_vars

\* C14 witness: a record was saved while the ledger held another key's record
\* with a non-zero count, which is still there
C14_Witness ==
    /\ Saved(1)
    /\ path[1] = "retry"
    /\ HasRecord(CallKey(1))
    /\ \E k \in Keys : k # CallKey(1) /\ HasRecord(k) /\ PersistedCount(k) >= 1

\* C15: Increment leaves the file system alone; when it returns the exhausted
\* error the record is unchanged in every field, otherwise the count is one
\* higher, the timestamp is the current time and the other fields are unchanged.
C15_IncrementInMemoryOnly ==
    [][\A now \in Clock : ApiIncrement(1, now) =>
        /\ UNCHANGED fsVars
        /\ IF incrementErr'[1] # nil
           THEN retryState'[1] = retryState[1]
           ELSE retryState'[1] = [retryState[1] EXCEPT !.Count = retryState[1].Count + 1,
                                                        !.LastAttempt = now]]_vars

\* C15 witness: a record was incremented in memory while the ledger holds
\* nothing for its key
C15_Witness ==
    /\ pc[1] = "api"
    /\ incrementErr[1] = nil
    /\ retryState[1].Count >= 1
    /\ retryState[1].LastAttempt >= 1
    /\ ~HasRecord(CallKey(1))

\* C16: Reset yields count 0 whatever the count was, its result is a fixed
\* point of Reset (twice equals once), and a record already at count 0 with the
\* zero timestamp is left unchanged.
C16_ResetIdempotent ==
    [][ApiReset(1) =>
        /\ retryState'[1].Count = 0
        /\ Reset(retryState'[1]) = retryState'[1]
        /\ (retryState[1].Count = 0 /\ retryState[1].LastAttempt = 0) =>
                retryState'[1] = retryState[1]]_vars

\* C16 witness: the record in memory is back at count 0 while the ledger still
\* holds it with the count two Increments had given it
C16_Witness ==
    /\ pc[1] = "api"
    /\ retryState[1].Count = 0
    /\ retryState[1].LastAttempt = 0
    /\ HasRecord(CallKey(1))
    /\ PersistedCount(CallKey(1)) >= 2

\* C17: a key the ledger holds is held after every further step (failure,
\* success or reset of any key), and a success or an explicit reset leaves the
\* key's entry present with count 0 and the zero timestamp.
C17_RecordNeverDeleted ==
    /\ [][(\/ Exists(RetryPath)' # Exists(RetryPath)
            \/ Content(RetryPath)' # Content(RetryPath)) =>
                LET before == loadStore
                    after == loadStore'
                IN before.err = nil =>
                      /\ after.err = nil
                      /\ DOMAIN before.store \subseteq DOMAIN after.store]_vars
    /\ []((Saved(1) /\ path[1] \in {"reset", "success"}) =>
            /\ HasRecord(CallKey(1))
            /\ loadStore.store[CallKey(1)].Count = 0
            /\ loadStore.store[CallKey(1)].LastAttempt = 0)

\* C17 witness: an explicit reset was saved into a ledger that held records,
\* and another key's record with a non-zero count is still there
C17_Witness ==
    /\ Saved(1)
    /\ args[1].op = "ResetPhase"
    /\ storeErr[1] = "ok"
    /\ HasRecord(CallKey(1))
    /\ PersistedCount(CallKey(1)) = 0
    /\ \E k \in Keys : k # CallKey(1) /\ PersistedCount(k) >= 1

\* C18: a multi-phase run attempts the phases of the execution list in the
\* list's order, one at a time, and attempts no phase after one that did not
\* succeed.
C18_RunStopsAtFirstFailure ==
    /\ Len(ran) <= Len(order)
    /\ \A i \in 1..Len(ran) : ran[i].Phase = order[i]
    /\ \A i \in 1..(Len(ran) - 1) : ran[i].Success
    /\ pc[1] # "idle" =>
            /\ Len(ran) < Len(order)
            /\ args[1].phase = order[Len(ran) + 1]
            /\ \A i \in 1..Len(ran) : ran[i].Success
    /\ (runpc = "stopped" /\ Len(ran) < Len(order)) =>
            (ran = << >> \/ ~ran[Len(ran)].Success)

\* C18 witness: the run stopped at its second phase, which failed, with a
\* later phase of the list never attempted
C18_Witness ==
    /\ runpc = "stopped"
    /\ Len(ran) = 2
    /\ Len(order) >= 3
    /\ ran[1].Success
    /\ ~ran[2].Success

\* the phases a PhaseConfig asks for: -a asks for all of them
Requested(c) ==
    IF c.All THEN {PhaseSpecify, PhasePlan, PhaseTasks, PhaseImplement}
    ELSE {ph \in {PhaseSpecify, PhasePlan, PhaseTasks, PhaseImplement} :
             \/ ph = PhaseSpecify /\ c.Specify
             \/ ph = PhasePlan /\ c.Plan
             \/ ph = PhaseTasks /\ c.Tasks
             \/ ph = PhaseImplement /\ c.Implement}

\* C19: for every set of phase flags, -a included, the execution list holds
\* exactly the requested phases, each once, at strictly increasing positions
\* of the canonical order.
C19_OrderingInvariant ==
    [][(runpc = "flags" /\ runpc' = "phases") =>
        /\ {order'[i] : i \in 1..Len(order')} = Requested(config)
        /\ Len(order') = Cardinality(Requested(config))
        /\ \A i \in 1..Len(order') : getPhaseNumber(order'[i]) >= 1
        /\ \A i \in 1..(Len(order') - 1) :
              getPhaseNumber(order'[i]) < getPhaseNumber(order'[i + 1])]_vars

\* C19 witness: the list built for -a
C19_Witness ==
    /\ runpc = "phases"
    /\ config.All
    /\ order = <<PhaseSpecify, PhasePlan, PhaseTasks, PhaseImplement>>

\* C20 as claimed: a failed attempt returns a non-nil error, and an ExecutePhase
\* during which persisting the retry record failed returns without Success and
\* with an error whose chain holds the failure of the write.
C20_ErrorsReturned ==
    /\ []((Returning(1) /\ result[1].Error # nil) => retErr[1] # nil)
    /\ [][(pc[1] = "save_open" /\ pc'[1] = "done" /\ args[1].op = "ExecutePhase") =>
            /\ ~result'[1].Success
            /\ retErr'[1] # nil
            /\ \E i \in 1..Len(retErr'[1]) :
                  retErr'[1][i].msg = "failed to write temp file"]_vars

\* every tool invocation has finished: none is inside a call
Quiescent == \A p \in Procs : pc[p] \in {"idle", "done"}

\* C21 as claimed: with invocations running failing attempts concurrently, a
\* Save that completes leaves its key's persisted record equal to the record
\* it wrote, and once all have finished the ledger is one complete
\* serialisation, never a mixture of two writes.
C21_LastWriteWins ==
    /\ []((Quiescent /\ Exists(RetryPath)) => WellFormed(Content(RetryPath)))
    /\ [][\A p \in Procs :
            (pc[p] = "save_rename" /\ pc'[p] = "done" /\ dir[TmpPath] # NoFile) =>
                /\ HasRecord(CallKey(p))'
                /\ loadStore'.store[CallKey(p)] = retryState[p]]_vars

\* C22: runCommand returns either a Result with a nil error or no Result with
\* an error; a child that started and ended with a non-zero status, the
\* context not being done, yields a Result carrying that status; the Result's
\* exit code is always the child's; and an error is returned only if the
\* process did not start, the context is done, or Wait failed although the
\* child had exited with status 0.
C22_ExitCodeOnResult ==
    apc = "returned" =>
        /\ (agentRet.err = nil) <=> (agentRet.result # NoResult)
        /\ agentRet.err = nil => agentRet.result[1].ExitCode = exitStatus
        /\ (child # "none" /\ exitStatus # 0 /\ ctxErr = nil) => agentRet.err = nil
        /\ agentRet.err # nil =>
              \/ child = "none" /\ ErrPrefix(agentRet.err) = "starting custom agent"
              \/ ctxErr # nil /\ ErrCause(agentRet.err) = ctxErr
              \/ exitStatus = 0 /\ ErrCause(agentRet.err) = CopyError

\* C22 witness: a child that ended with a non-zero status of its own, reported
\* on the Result with a nil error
C22_Witness ==
    /\ apc = "returned"
    /\ ctxErr = nil
    /\ exitStatus >= 1
    /\ agentRet.err = nil
    /\ agentRet.result = Result(exitStatus)

\* C23 as claimed: a runCommand that returns after killing its child returns
\* only once the child is reaped, and whenever the context is done during a
\* call the call returns.
C23_KillWaitsAndReturns ==
    /\ []((apc = "returned" /\ killed) => child = "reaped")
    /\ ((ctxErr # nil /\ apc \in {"start", "select", "wait_done"}) ~> apc = "returned")

\* the template holds a shell metacharacter, in the words of the contract: a
\* pipe, a semicolon, a redirection, a backquote, or one of the pairs && || $(
HasShellSyntax(t) ==
    \E i \in 1..Len(t) :
        \/ t[i] \in {"|", ";", ">", "<", Backquote}
        \/ i < Len(t) /\ <<t[i], t[i + 1]>> \in {<<"&", "&">>, <<"|", "|">>, <<"$", "(">>}

\* the first word of the template is NAME=... with NAME a letter or underscore
\* followed by letters, digits and underscores
HasEnvPrefix(t) ==
    /\ Fields(t) # << >>
    /\ LET w == Fields(t)[1] IN
          \E n \in 1..(Len(w) - 1) :
              /\ w[n + 1] = "="
              /\ w[1] \notin Digits
              /\ \A j \in 1..n : w[j] \in Letters \cup Digits \cup {"_"}

\* C24: shell detection. A constructed custom agent runs its command through
\* `sh -c` exactly when its template holds a shell metacharacter or its first
\* word is an environment-variable assignment, and executes the program
\* directly otherwise; the choice is fixed at construction, and every command
\* the agent builds follows it.
C24_ShellIffMetacharOrEnvPrefix ==
    /\ [](agent.ok =>
            /\ agent.template = template
            /\ agent.useShell <=> (HasShellSyntax(template) \/ HasEnvPrefix(template)))
    /\ [](cmd # << >> =>
            IF HasShellSyntax(template) \/ HasEnvPrefix(template)
            THEN Len(cmd) = 3 /\ cmd[1] = sh /\ cmd[2] = dashC
            ELSE cmd[1] # sh)
    /\ [][agent.ok => agent' = agent]_vars

\* a template whose only reason for the shell is its FOO= prefix has built a
\* `sh -c` command
C24_Witness ==
    /\ template = <<"A", "=", promptPlaceholder>>
    /\ ~HasShellSyntax(template)
    /\ cmd # << >> /\ cmd[1] = sh

\* a one-letter prompt no template of the model holds: what the template
\* makes of it is the command line its author wrote
Marker == "x"
Plain(t) == ReplaceAll(t, promptPlaceholder, <<Marker>>)

\* the argument vector the template's author wrote, the prompt in the place
\* of the placeholder
IntendedArgs(t, p) ==
    LET ref == shlexSplit(Plain(t)).args
    IN  [i \in 1..Len(ref) |-> ReplaceAll(ref[i], Marker, p)]

\* the words and operators the template's author wrote for the shell
IntendedTokens(t, p) ==
    LET ref == shParse(Plain(t)).toks
    IN  [i \in 1..Len(ref) |->
            IF ref[i].op THEN ref[i] ELSE Word(ReplaceAll(ref[i].v, Marker, p))]

\* the template is a well-formed command line: with a plain word as prompt
\* both readers accept it
WellQuoted(t) == ~shlexSplit(Plain(t)).err /\ ~shParse(Plain(t)).err

\* C25: quoting and injection safety. Whatever the prompt holds (spaces,
\* quotes, pipes, newlines, dollar signs) and whatever well-formed template
\* holds the placeholder, a built command carries the prompt intact in the one place of
\* the placeholder: on the direct path the argument vector is the template's
\* with the prompt substituted, on the shell path the shell reads the
\* template's words and operators with the prompt substituted, and no
\* character of the prompt splits a word or acts as shell syntax.
C25_PromptIsOneArgument ==
    (cmd # << >> /\ WellQuoted(template)) =>
        IF agent.useShell
        THEN /\ ~shParse(cmd[3]).err
             /\ shParse(cmd[3]).toks = IntendedTokens(template, prompt)
        ELSE cmd = IntendedArgs(template, prompt)

\* runPhaseWorkflow got as far as the preflight check
PreflightRan == runpc # "flags" /\ HasAnyPhase(config) /\ runErr # DescriptionRequired

\* the warnings the prerequisite policy asks for: one per phase that is
\* requested while its predecessor is not and the predecessor's artifact is
\* missing, in the order plan, tasks, implement
PolicyWarnings(c) ==
    (IF c.Plan /\ ~c.Specify /\ SpecFile \notin artifacts
     THEN <<"spec.md not found (required for plan phase)">> ELSE << >>)
    \o (IF c.Tasks /\ ~c.Plan /\ PlanFile \notin artifacts
        THEN <<"plan.md not found (required for tasks phase)">> ELSE << >>)
    \o (IF c.Implement /\ ~c.Tasks /\ TasksFile \notin artifacts
        THEN <<"tasks.md not found (required for implement phase)">> ELSE << >>)

\* C27: prerequisite policy. Whenever preflight ends without a resolution
\* error, it has emitted exactly the warnings of the policy (a warning for
\* plan, tasks or implement iff the phase is requested, its predecessor is not
\* and the predecessor's artifact is missing), a missing artifact never makes
\* it return an error, confirmation is needed exactly when there is a warning,
\* and a run that goes on executes every requested phase.
C27_PrerequisiteWarnings ==
    (PreflightRan /\ preflight.Error = nil) =>
        /\ preflight.Warnings = PolicyWarnings(config)
        /\ preflight.NeedsConfirmation <=> (Len(preflight.Warnings) > 0)
        /\ runpc = "phases" => {order[i] : i \in 1..Len(order)} = Requested(config)

\* C28: spec resolution. When no spec can be resolved, preflight fails hard
\* exactly when specify is not requested: the run returns the resolution
\* error, executes no phase and writes nothing; with specify requested the
\* missing spec is no error, a new spec is asked for and the run goes on with
\* specify first. With a resolved spec preflight never returns an error.
C28_SpecResolution ==
    /\ []((PreflightRan /\ ~branchSpec /\ ~config.Specify) =>
            /\ preflight.Error = NoSpecDetected
            /\ runErr = NoSpecDetected
            /\ runpc = "stopped" /\ order = << >> /\ ran = << >> /\ pc[1] = "idle")
    /\ []((PreflightRan /\ ~branchSpec /\ config.Specify) =>
            /\ preflight.Error = nil /\ preflight.NeedsNewSpec
            /\ runErr = nil
            /\ order # << >> /\ order[1] = PhaseSpecify)
    /\ []((PreflightRan /\ branchSpec) => preflight.Error = nil)
    /\ [][(runErr = nil /\ runErr' = NoSpecDetected) => UNCHANGED <<fsVars, procVars>>]_vars

\* a run for plan alone, on a branch no spec is detected from, has ended with
\* the resolution error
C28_Witness ==
    /\ ~branchSpec /\ config.Plan /\ ~config.Specify
    /\ runpc = "stopped" /\ runErr = NoSpecDetected

\* C26: exit-code contract. A successful result maps to 0 and nothing else
\* does; a failed result maps to 4 exactly when its error is a missing
\* dependency, to 3 exactly when it is invalid input, and to 1 otherwise (a
\* failure that a retry may cure); retry exhaustion maps to 2; a successful
\* result is never to be retried. Each outcome has the one code.
C26_ExitCodeContract ==
    /\ validated.op = "Result.ExitCode" =>
          LET r == validated.arg
              c == validated.code
          IN  /\ c \in {0, 1, 3, 4}
              /\ (c = 0) <=> r.Success
              /\ (c = 4) <=> (~r.Success /\ r.Error = MissingDependencies)
              /\ (c = 3) <=> (~r.Success /\ r.Error = InvalidArguments)
              /\ (c = 1) <=> (~r.Success /\ r.Error \notin {MissingDependencies, InvalidArguments})
    /\ validated.op = "RetryExhaustedError.ExitCode" => validated.code = 2
    /\ validated.op = "Result.ShouldRetry" => (validated.retry => ~validated.arg.r.Success)

\* a failed result whose error is the missing dependency got exit code 4
C26_Witness ==
    /\ validated.op = "Result.ExitCode"
    /\ validated.arg = [Success |-> FALSE, Error |-> MissingDependencies]
    /\ validated.code = 4

\* C29 as claimed: validating the plan phase in a spec directory without files
\* fails, and the hint of the failure names the specify phase.
C29_PlanHintNamesSpecify ==
    (validated.op = "ValidatePlan" /\ artifacts = {} /\ ~validated.arg) =>
        /\ validated.err # nil
        /\ validated.err[1].Phase = PhaseSpecify

\* C29: validating the plan phase in a spec directory without files fails;
\* when plan.md is found missing, the hint of the failure names the plan phase
\* itself (run 'autospec plan' to create it); a stat error of another kind is
\* returned wrapped, without a hint.
C29_PlanHintNamesPlan ==
    (validated.op = "ValidatePlan" /\ artifacts = {}) =>
        /\ validated.err # nil
        /\ IF validated.arg
           THEN /\ ErrPrefix(validated.err) = "error checking plan.md"
                /\ validated.err[1].Phase = ""
           ELSE /\ validated.err[1].Phase = PhasePlan
                /\ ErrPrefix(validated.err) = "plan.md not found - run 'autospec plan' to create it"

\* the plan phase has been validated in an empty spec directory and plan.md
\* was found missing
C29_Witness ==
    /\ validated.op = "ValidatePlan" /\ artifacts = {} /\ ~validated.arg
    /\ validated.err # nil

\* C30: implement validation. With a readable tasks.md, ValidateTasksComplete
\* succeeds iff no task is pending, in progress or blocked; when it fails, the
\* remaining count of its message is pending + in-progress + blocked, and the
\* breakdown gives the pending and the in-progress count and, whenever a task
\* is blocked, the blocked count.
C30_TasksRemaining ==
    (validated.op = "ValidateTasksComplete" /\ TasksFile \in artifacts) =>
        LET e == validated.err IN
        /\ (e = nil) <=> (tasks.Pending + tasks.InProgress + tasks.Blocked = 0)
        /\ e # nil =>
              /\ e[1].a[1] = tasks.Pending + tasks.InProgress + tasks.Blocked
              /\ e[1].a[2] = tasks.Pending
              /\ e[1].a[3] = tasks.InProgress
              /\ IF tasks.Blocked > 0
                 THEN e[1].msg = IncompleteBlockedFormat /\ e[1].a[4] = tasks.Blocked
                 ELSE e[1].msg = IncompleteFormat /\ Len(e[1].a) = 3

\* ten tasks, seven completed, two pending, one blocked: three tasks remain
C30_Witness ==
    /\ tasks = [Pending |-> 2, InProgress |-> 0, Completed |-> 7, Blocked |-> 1]
    /\ validated.op = "ValidateTasksComplete"
    /\ validated.err # nil
    /\ validated.err[1].a = <<3, 2, 0, 1>>

\* the validations of a phase's artifact, and the file each of them looks for
ValidatorOps == {"ValidateSpec", "ValidatePlan", "ValidateTasks"}
ArtifactOf(op) ==
    IF op = "ValidateSpec" THEN SpecFile
    ELSE IF op = "ValidatePlan" THEN PlanFile
    ELSE TasksFile

RegistryExclusion ==
    /\ mu.w # 0 => mu.r = {}
    /\ \A g \in Goroutines :
         /\ (reg[g].pc \in {"store", "unlock"}) <=> (mu.w = g)
         /\ (reg[g].pc \in {"index", "range", "runlock"}) <=> (g \in mu.r)

\* the names of a list are strictly ascending
Ascending(names) ==
    \A i \in 1..(Len(names) - 1) : StringLess(names[i], names[i + 1])

\* what each call holds at the end of its critical section
RegistryAnswers ==
    \A g \in Goroutines :
        /\ (reg[g].op = "Register" /\ reg[g].pc = "unlock") =>
               MapIndex(agents, Name(reg[g].agent)) = reg[g].agent
        /\ (reg[g].op \in {"Get", "MustGet"} /\ reg[g].pc = "runlock") =>
               /\ reg[g].ret = MapIndex(agents, reg[g].name)
               /\ (reg[g].ret = NilAgent) <=> (reg[g].name \notin DOMAIN agents)
        /\ (reg[g].op = "List" /\ reg[g].pc = "runlock") =>
               /\ Ascending(reg[g].names)
               /\ {reg[g].names[i] : i \in 1..Len(reg[g].names)} = DOMAIN agents
               /\ Len(reg[g].names) = Cardinality(DOMAIN agents)
        /\ (reg[g].pc = "panicked") => (reg[g].op = "MustGet" /\ reg[g].ret = NilAgent)
        /\ (reg[g].op = "MustGet" /\ reg[g].pc = "done") => reg[g].ret # NilAgent

\* the map changes only by the store of the Register that holds the write lock,
\* and only under the name of the agent it registers
RegistryWrites ==
    agents' # agents =>
        \E g \in Goroutines :
            /\ mu.w = g /\ mu.r = {}
            /\ reg[g].op = "Register"
            /\ agents' = MapAssign(agents, Name(reg[g].agent), reg[g].agent)

\* C32: the registry is thread-safe with last-write-wins registration: under
\* every interleaving of Register, Get and List calls a writer excludes all
\* other callers, Get(name) yields nil when no Register has stored under name
\* and otherwise the agent of the latest Register for it, and List yields the
\* registered names exactly once each, in ascending order
C32_RegistryLastWriteWins ==
    /\ [](RegistryExclusion /\ RegistryAnswers)
    /\ [][RegistryWrites]_vars

C32_Witness ==
    /\ reg[1].op = "List" /\ reg[1].pc = "runlock"
    /\ reg[1].names = AgentNames
    /\ reg[2].op = "Register" /\ reg[2].pc = "lock"
    /\ Name(reg[2].agent) = "claude"
    /\ agents["claude"] # reg[2].agent

ExecutionFailed == Wrap("command execution failed", AgentError)

\* C33: within one ExecutePhase call the retry record is loaded first, then the
\* agent is invoked, then the output is validated; validation starts only from
\* an invocation that returned without error, and an invocation error goes
\* straight to the failure path (Increment, then Save) with the execution error
C33_LoadInvokeValidate ==
    [][/\ (pc'[1] = "load" /\ pc[1] # "load") => (pc[1] = "idle" /\ args'[1].op = "ExecutePhase")
       /\ (pc[1] = "load" /\ pc'[1] # "load") => pc'[1] \in {"exec", "done"}
       /\ (pc'[1] = "exec" /\ pc[1] # "exec") =>
              (pc[1] = "load" /\ retErr'[1] = nil /\ result'[1] = NewPhaseResult(args[1].phase))
       /\ (pc'[1] = "validate" /\ pc[1] # "validate") =>
              (pc[1] = "exec" /\ result'[1] = result[1] /\ result[1].Error = nil
               /\ UNCHANGED <<fsVars, retryState, incrementErr>>)
       /\ (pc[1] = "exec" /\ pc'[1] \notin {"exec", "validate"}) =>
              /\ pc'[1] \in {"save", "done"}
              /\ result'[1].Error = ExecutionFailed
              /\ ~result'[1].Success
              /\ retryState'[1] = Increment(retryState[1], retryState'[1].LastAttempt).state
              /\ pc'[1] = "save" => path'[1] \in {"retry", "exhausted"}
              /\ path'[1] = "exhausted" => retErr'[1] = Wrap("retry limit exhausted", AgentError)
       /\ (result'[1].Error = Wrap("validation failed", ValidationError)
           /\ result'[1].Error # result[1].Error) =>
              pc[1] = "validate"]_vars

C33_Witness ==
    /\ args[1].op = "ExecutePhase"
    /\ pc[1] = "save" /\ path[1] = "retry"
    /\ result[1].Error = ExecutionFailed
    /\ retryState[1].Count = 2

\* what a finished ExecuteWithRetry call returned, for attempt limits from least on
WithRetryContract(least) ==
    withRetry.maxAttempts >= least =>
        /\ withRetry.calls <= withRetry.maxAttempts
        /\ withRetry.succeeded => (withRetry.pc = "done" /\ withRetry.ret = nil)
        /\ withRetry.pc = "done" =>
             /\ (withRetry.ret = nil) <=> withRetry.succeeded
             /\ ~withRetry.succeeded =>
                  /\ withRetry.calls = withRetry.maxAttempts
                  /\ withRetry.lastErr \in ExecuteErrors
                  /\ Unwrap(withRetry.ret) = withRetry.lastErr

\* a call of ExecuteWithRetry returns
WithRetryTerminates == (withRetry.pc = "loop") ~> (withRetry.pc = "done")

\* the contract for attempt limits of at least one
WithRetryFromOne == [](WithRetryContract(1)) /\ [][UNCHANGED fsVars]_vars

\* C34: ExecuteWithRetry invokes the command at most maxAttempts times, stops
\* at the first success, returns nil exactly when an invocation succeeded and
\* otherwise an error that wraps the last invocation's error, and leaves the
\* retry ledger alone
C34_ExecuteWithRetry ==
    /\ [](WithRetryContract(0))
    /\ [][UNCHANGED fsVars]_vars

\* C35: every PhaseResult ExecutePhase returns has Success and Exhausted never
\* both true, Success only with RetryCount 0 and a nil error, a result without
\* Success only with a non-nil error, and Exhausted only when the Increment of
\* this very call reported exhaustion
C35_PhaseResultShape ==
    Returning(1) =>
        /\ ~(result[1].Success /\ result[1].Exhausted)
        /\ result[1].Success => (result[1].RetryCount = 0 /\ retErr[1] = nil)
        /\ ~result[1].Success => retErr[1] # nil
        /\ result[1].Exhausted =>
             /\ ErrorsAs(incrementErr[1], "RetryExhaustedError")
             /\ ~CanRetry(retryState[1])
             /\ result[1].RetryCount = retryState[1].Count

C35_Witness ==
    /\ Returning(1)
    /\ result[1].Exhausted
    /\ result[1].RetryCount = MaxRetries[1]
    /\ MaxRetries[1] > 0
    /\ retErr[1] # nil

\* C36: each ExecutePhase call invokes the agent exactly once whatever count
\* it loaded, a count at the ceiling included: the invocation is entered once,
\* straight from the load, is never re-entered within the call, and every
\* call that returns after a successful load has been through it
C36_OneInvocationPerCall ==
    [][/\ (pc'[1] = "exec") => (pc[1] = "load")
       /\ (pc[1] = "load" /\ args[1].op = "ExecutePhase"
           /\ LoadRetryState(args[1].spec, args[1].phase, MaxRetries[1]).err = nil) =>
              pc'[1] = "exec"
       /\ (pc[1] = "exec") => pc'[1] \in {"validate", "save", "done"}
       /\ (pc[1] \in {"validate", "reset_load", "save", "save_open", "save_write",
                      "save_rename", "done"}) =>
              pc'[1] \notin {"load", "exec"}
       /\ (pc[1] = "load" /\ args[1].op = "ExecutePhase") =>
              (pc'[1] \in {"load", "exec", "done"} /\ UNCHANGED fsVars)]_vars

C36_Witness ==
    /\ args[1].op = "ExecutePhase"
    /\ pc[1] = "exec"
    /\ retryState[1].Count = retryState[1].MaxRetries
    /\ retryState[1].Count > 0

\* C37: when every attempt fails and ExecutePhase is re-invoked for the same
\* key under a fixed ceiling N without a reset, a call eventually reports
\* Exhausted; the N calls before it each reported a retryable failure, so the
\* first Exhausted report is that of call N + 1, and the persisted count never
\* goes down on the way
C37_EventuallyExhausted ==
    /\ <>(Returning(1) /\ result[1].Exhausted /\ attempt = MaxRetries[1] + 1)
    /\ [](Returning(1) =>
            /\ ~result[1].Success /\ retErr[1] # nil
            /\ (attempt <= MaxRetries[1]) => ~result[1].Exhausted
            /\ result[1].Exhausted => attempt > MaxRetries[1])
    /\ [][PersistedCount(ScenarioKey)' >= PersistedCount(ScenarioKey)]_vars

C37_Witness ==
    /\ Returning(1)
    /\ result[1].Exhausted
    /\ MaxRetries[1] = 1
    /\ attempt = 2
    /\ PersistedCount(ScenarioKey) = 1
    /\ ErrPrefix(retErr[1]) = "validation failed and retry exhausted"

\* process p holds a record LoadRetryState returned to its ExecutePhase call
Loaded(p) ==
    /\ args[p].op = "ExecutePhase"
    /\ pc[p] \in {"exec", "validate"}

\* C38 as claimed: in every reachable state, also when successive runs use
\* different ceilings, every record Load returned and every record the ledger
\* holds has a count no greater than its ceiling
C38_CountWithinCeiling ==
    /\ Loaded(1) => retryState[1].Count <= retryState[1].MaxRetries
    /\ loadStore.err = nil =>
         \A k \in DOMAIN loadStore.store :
            loadStore.store[k].Count <= loadStore.store[k].MaxRetries

\* C38 amended: Load returns the persisted count as it is under the ceiling of
\* the current run, so the count may exceed a ceiling that was lowered since;
\* no Increment raises a count above the ceiling of the run that performs it, an
\* Increment at or above the ceiling fails and leaves the count alone, and the
\* persisted count of a key only ever rises to a value within the ceiling of the
\* run that persists it
C38_CountWithinIncrementingCeiling ==
    [][/\ (pc[1] = "load" /\ pc'[1] = "exec") =>
              /\ retryState'[1].MaxRetries = MaxRetries[1]
              /\ retryState'[1].Count = PersistedCount(CallKey(1))
       /\ (Loaded(1) /\ retryState'[1] # retryState[1]) =>
              /\ retryState'[1].Count = retryState[1].Count + 1
              /\ retryState'[1].Count <= MaxRetries[1]
              /\ incrementErr'[1] = nil
       /\ (Loaded(1) /\ pc'[1] = "save" /\ retryState'[1] = retryState[1]) =>
              /\ retryState[1].Count >= MaxRetries[1]
              /\ ErrorsAs(incrementErr'[1], "RetryExhaustedError")
       /\ (Content(RetryPath)' # Content(RetryPath)) =>
              \A k \in Keys :
                 (PersistedCount(k)' > PersistedCount(k)) =>
                     (k = CallKey(1) /\ PersistedCount(k)' <= MaxRetries[1])]_vars

C38_Witness ==
    /\ args[1].op = "ExecutePhase"
    /\ pc[1] = "save" /\ path[1] = "exhausted"
    /\ retryState[1].Count > retryState[1].MaxRetries
    /\ retryState[1].MaxRetries = MaxRetries[1]
    /\ MaxRetries[1] > 0

\* C39: two invocations on different keys whose Saves do not overlap: every
\* Save leaves the other key's persisted record as it was and its own record
\* in the ledger, also when it loaded before the other saved, so once both
\* have finished the ledger holds both updates
C39_DisjointKeysBothKept ==
    /\ []((\A p \in Procs : Saved(p)) =>
            \A p \in Procs :
               /\ HasRecord(CallKey(p))
               /\ loadStore.store[CallKey(p)] = retryState[p])
    /\ [][\A p \in Procs :
            (pc[p] = "save_rename" /\ pc'[p] = "done") =>
                /\ HasRecord(CallKey(p))'
                /\ loadStore'.store[CallKey(p)] = retryState[p]
                /\ \A k \in Keys \ {CallKey(p)} :
                      HasRecord(k) =>
                          (HasRecord(k)' /\ loadStore'.store[k] = loadStore.store[k])]_vars

\* each invocation has made its one failing call, and the ledger, which did
\* not exist when they started, holds the count of both keys
C39_Witness ==
    /\ attempt = 2
    /\ \A p \in Procs : Saved(p) /\ path[p] = "retry" /\ retryState[p].Count = 1
    /\ PersistedCount(KeyOf(1)) = 1
    /\ PersistedCount(KeyOf(2)) = 1

====
